---- MODULE Spec2Model ----
(***************************************************************************)
(* Capture-session pipeline of rustedscreencapture.                        *)
(*                                                                         *)
(* The model covers the three recording managers of the crate              *)
(*   recording.rs          RecordingManager   (kind "recording")           *)
(*   recording_manager.rs  RecordingManager   (kind "recording_manager")   *)
(*   content.rs            RealStreamManager  (kind "content")             *)
(* together with the objects they create (StreamOutput, RealStreamDelegate,*)
(* ObjCDelegateBridge, VideoEncoder, AudioEncoder, SCStream) and the OS    *)
(* capture service that completes start/stop requests and calls back into  *)
(* the delegate bridge from its own threads.                               *)
(*                                                                         *)
(* Option<T> is a sequence of length <= 1: <<>> is None, <<x>> is Some(x). *)
(* Heap objects live in sequences and are named by their index; a raw      *)
(* pointer is an index, 0 is the null pointer.                             *)
(***************************************************************************)
EXTENDS Integers, Sequences, FiniteSets, TLC

VARIABLES
    mgr,        \* the manager instance (fields of the struct)
    streams,    \* SCStream objects created through ScreenCaptureKitAPI::create_stream
    delegates,  \* RealStreamDelegate objects
    bridges,    \* ObjCDelegateBridge objects
    encoders,   \* VideoEncoder / AudioEncoder objects
    outputs,    \* StreamOutput objects
    result,     \* what the last start_recording / stop_recording call returned
    quiet       \* TRUE while no OS callback ran since that call returned

vars == <<mgr, streams, delegates, bridges, encoders, outputs, result, quiet>>

\* ----------------------------------------------------------------- bounds
MaxStarts == 2      \* sessions allocated before start_recording is no longer called
MaxSamples == 1     \* samples (video and audio together) delivered to one delegate

\* ------------------------------------------------------------ Option<T>
None == <<>>
Some(x) == <<x>>
IsSome(o) == Len(o) = 1
IsNone(o) == Len(o) = 0
Unwrap(o) == o[1]

NULL == 0
NoValue == -1       \* Option<u32>::None of a configuration field

\* ------------------------------------------------- RecordingConfiguration
Cfg(p, w, h, f, a) ==
    [output_path |-> p, width |-> w, height |-> h, fps |-> f, capture_audio |-> a]

\* Every field unset, and the two corners of the accepted ranges.
ValidConfigs ==
    { Cfg("/tmp/b.mp4", NoValue, NoValue, NoValue, TRUE),
      Cfg("/tmp/out.mov", 100, 4320, 1, FALSE),
      Cfg("/tmp/b.mp4", 7680, 100, 120, TRUE) }

InvalidConfigs ==
    { Cfg("", 1280, 720, 30, FALSE),
      Cfg("/tmp/out.mov", 50, 720, 30, FALSE),
      Cfg("/tmp/out.mov", 99, 720, 30, FALSE),
      Cfg("/tmp/out.mov", 7681, 720, 30, FALSE),
      Cfg("/tmp/out.mov", 1280, 99, 30, FALSE),
      Cfg("/tmp/out.mov", 1280, 4321, 30, FALSE),
      Cfg("/tmp/out.mov", 1280, 720, 0, FALSE),
      Cfg("/tmp/out.mov", 1280, 720, 121, FALSE) }

Configs == ValidConfigs \cup InvalidConfigs

unwrap_or(v, d) == IF v = NoValue THEN d ELSE v

\* recording.rs validate_configuration / recording_manager.rs
\* validate_recording_configuration: the same four checks in the same order.
validate_configuration(config) ==
    IF config.output_path = "" THEN "Output path cannot be empty"
    ELSE IF config.width # NoValue /\ (config.width < 100 \/ config.width > 7680)
        THEN "Width must be between 100 and 7680"
    ELSE IF config.height # NoValue /\ (config.height < 100 \/ config.height > 4320)
        THEN "Height must be between 100 and 4320"
    ELSE IF config.fps # NoValue /\ (config.fps < 1 \/ config.fps > 120)
        THEN "FPS must be between 1 and 120"
    ELSE "Ok"

validate_recording_configuration(config) ==
    IF config.output_path = "" THEN "Output path cannot be empty"
    ELSE IF config.width # NoValue /\ (config.width < 100 \/ config.width > 7680)
        THEN "Width must be between 100 and 7680"
    ELSE IF config.height # NoValue /\ (config.height < 100 \/ config.height > 4320)
        THEN "Height must be between 100 and 4320"
    ELSE IF config.fps # NoValue /\ (config.fps < 1 \/ config.fps > 120)
        THEN "FPS must be between 1 and 120"
    ELSE "Ok"

\* ------------------------------------------------- outcomes of native calls
\* One record per start_recording call: what each native call made during
\* the call returns.  pattern is the construction pattern of
\* ScreenCaptureKitAPI::create_stream that yields a non-null stream
\* (0: all four patterns fail).
AllSucceed ==
    [permission |-> TRUE, content |-> TRUE, directory |-> TRUE,
     asset_writer |-> TRUE, filter |-> TRUE, stream_config |-> TRUE,
     video_encoder |-> TRUE, audio_encoder |-> TRUE, bridge |-> TRUE,
     pattern |-> 1]

\* The outcomes that differ from AllSucceed in one native call, in the two
\* encoders, or in the stream pattern (a call after the first failing one is
\* never made, so its outcome does not matter).
Outcomes ==
    { [AllSucceed EXCEPT !.video_encoder = v, !.audio_encoder = a, !.pattern = p] :
          v \in BOOLEAN, a \in BOOLEAN, p \in 0..4 }
    \cup { [AllSucceed EXCEPT ![f] = FALSE] :
          f \in {"permission", "content", "directory", "asset_writer",
                 "filter", "stream_config", "bridge"} }

\* The outcomes the lifecycle specification draws from: the stream comes from
\* pattern 1 or 2 or from none (patterns 3 and 4 attach no delegate at all).
LifecycleOutcomes ==
    { [AllSucceed EXCEPT !.video_encoder = v, !.audio_encoder = a, !.pattern = p] :
          v \in BOOLEAN, a \in BOOLEAN, p \in 0..2 }
    \cup { [AllSucceed EXCEPT ![f] = FALSE] :
          f \in {"permission", "content", "directory", "asset_writer",
                 "filter", "stream_config", "bridge"} }

\* ------------------------------------------------------------- heap objects
NSObjectDelegate == -1   \* a plain NSObject passed as the stream delegate

\* delegate.rs RealStreamDelegate::new, line 55: output_path.replace(".mp4", "_audio.m4a")
audio_path(p) == IF p = "/tmp/b.mp4" THEN "/tmp/b_audio.m4a" ELSE p

\* encoder.rs VideoEncoder::new / AudioEncoder::new on success: the writer
\* is in its writing state (startWriting returned true).  owner is the
\* delegate that holds the only Arc of the encoder.
NewEncoder(kind, path, owner) ==
    [kind |-> kind, owner |-> owner, output_url |-> path, is_recording |-> TRUE,
     frame_count |-> 0, writer |-> "writing", finish_calls |-> 0]

\* stream_output.rs StreamOutput::new
NewStreamOutput(config) ==
    [output_path |-> config.output_path,
     asset_writer |-> FALSE,
     is_recording |-> FALSE,
     recording_started |-> FALSE,
     video_frame_count |-> 0,
     audio_sample_count |-> 0,
     finish_calls |-> 0,
     width |-> unwrap_or(config.width, 1920),
     height |-> unwrap_or(config.height, 1080),
     fps |-> unwrap_or(config.fps, 30),
     capture_audio |-> config.capture_audio]

\* stream_output.rs StreamOutput::stop_recording: always Ok(output_path)
StreamOutput_stop_recording(o) ==
    [o EXCEPT !.is_recording = FALSE,
              !.finish_calls = IF o.asset_writer THEN @ + 1 ELSE @]

\* bindings.rs create_stream: null when the filter or the configuration is
\* null or when no pattern succeeds; pattern 1 attaches the given delegate,
\* pattern 2 a fresh NSObject, patterns 3 and 4 none.
create_stream(filter_ok, config_ok, delegate, pattern) ==
    IF ~filter_ok \/ ~config_ok THEN None
    ELSE IF pattern = 0 THEN None
    ELSE Some([delegate |-> IF pattern = 1 THEN delegate
                            ELSE IF pattern = 2 THEN NSObjectDelegate
                            ELSE NULL,
               state |-> "created"])

\* delegate.rs RealStreamDelegate::new: the encoders it creates (a failed
\* encoder is None) and the delegate itself.  next is the first free index
\* of the encoder heap.
NewDelegateEncoders(path, env, owner) ==
    (IF env.video_encoder THEN <<NewEncoder("video", path, owner)>> ELSE <<>>)
    \o (IF env.audio_encoder THEN <<NewEncoder("audio", audio_path(path), owner)>>
        ELSE <<>>)

NewDelegate(path, shared, env, next) ==
    [output_path |-> path,
     video_encoder |-> IF env.video_encoder THEN Some(next) ELSE None,
     audio_encoder |-> IF env.audio_encoder
                       THEN Some(IF env.video_encoder THEN next + 1 ELSE next)
                       ELSE None,
     frame_count |-> 0,
     audio_frame_count |-> 0,
     shared_flag |-> shared,     \* is_recording is the manager's Arc<Mutex<bool>>
     own_flag |-> TRUE,          \* content.rs: a flag of its own, created true
     dropped |-> FALSE]

\* The native create_delegate_bridge: a handle, or null when the bridge
\* object could not be made
BridgePtr == 1
create_delegate_bridge(env) == IF env.bridge THEN BridgePtr ELSE NULL

\* A bridge that is always made around the delegate of the first session.
NewBridge_of_first_delegate(d, owns) ==
    [delegate |-> 1, owns |-> owns, released |-> FALSE, bridge_ptr |-> BridgePtr]

\* objc_bridge_rust.rs ObjCDelegateBridge::new on success; owns tells that
\* the bridge holds an Arc of the delegate (_delegate).
NewBridge(d, owns) ==
    [delegate |-> d, owns |-> owns, released |-> FALSE, bridge_ptr |-> BridgePtr]

\* A constructor that wraps whatever handle it was given.
ObjCDelegateBridge_new_unchecked(d, owns, bridge_ptr) ==
    Some([NewBridge(d, owns) EXCEPT !.bridge_ptr = bridge_ptr])

\* objc_bridge_rust.rs ObjCDelegateBridge::new: Err (None) on a null handle
ObjCDelegateBridge_new(d, owns, bridge_ptr) ==
    IF bridge_ptr = NULL THEN None
    ELSE Some([NewBridge(d, owns) EXCEPT !.bridge_ptr = bridge_ptr])

\* objc_bridge_rust.rs ObjCDelegateBridge::is_valid and as_objc_delegate
is_valid(bridge) == bridge.bridge_ptr # NULL
as_objc_delegate(bridge) == bridge.bridge_ptr

\* Dropping the last Arc<ObjCDelegateBridge>: Drop releases the native bridge
\* and nulls the handle.
DropBridge(bs, opt) ==
    IF IsSome(opt)
    THEN [bs EXCEPT ![Unwrap(opt)].released = TRUE, ![Unwrap(opt)].bridge_ptr = NULL]
    ELSE bs

\* ------------------------------------------------------------ the manager
NewManager(kind) ==
    [kind |-> kind,
     stream |-> None,
     content_filter |-> None,
     delegate |-> None,
     delegate_bridge |-> None,
     stream_output |-> None,
     is_recording |-> FALSE,
     recording_config |-> None,
     output_path |-> None,
     shareable_content |-> None]

Kinds == {"recording", "recording_manager", "content"}

NoResult ==
    [op |-> "none", status |-> "none", value |-> "", path |-> "", valid |-> TRUE,
     follows_start |-> FALSE]

\* What a call returns.  path and valid describe the configuration of the
\* last start_recording call; follows_start tells that the call came right
\* after a start_recording that returned Ok, with no OS callback in between.
Returned(op, status, value, config) ==
    [op |-> op, status |-> status, value |-> value,
     path |-> IF IsSome(config) THEN Unwrap(config).output_path ELSE result.path,
     valid |-> IF IsSome(config) THEN Unwrap(config) \in ValidConfigs ELSE result.valid,
     follows_start |-> result.op = "start" /\ result.status = "Ok" /\ quiet]

Init ==
    /\ mgr \in {NewManager(k) : k \in Kinds}
    /\ streams = <<>>
    /\ delegates = <<>>
    /\ bridges = <<>>
    /\ encoders = <<>>
    /\ outputs = <<>>
    /\ result = NoResult
    /\ quiet = TRUE

\* Rust ownership: a value is dropped when its last owner lets go of it.
\* A delegate is owned by the manager's delegate field and by every bridge
\* that holds an Arc of it; an encoder by its delegate; a StreamOutput by the
\* manager's stream_output field.  Dropping frees the struct (its fields are
\* gone); the encoders have no Drop, so the native writer stays as it was.
DelegateOwned(m, bs, d) ==
    \/ m.delegate = Some(d)
    \/ \E b \in 1..Len(bs) : bs[b].owns /\ ~bs[b].released /\ bs[b].delegate = d

DroppedDelegate ==
    [output_path |-> "", video_encoder |-> None, audio_encoder |-> None,
     frame_count |-> 0, audio_frame_count |-> 0, shared_flag |-> FALSE,
     own_flag |-> FALSE, dropped |-> TRUE]

DroppedEncoder(e) ==
    [e EXCEPT !.owner = NULL, !.output_url = "", !.is_recording = FALSE,
              !.frame_count = 0]

DroppedStreamOutput(o) ==
    [o EXCEPT !.output_path = "", !.is_recording = FALSE,
              !.recording_started = FALSE, !.video_frame_count = 0,
              !.audio_sample_count = 0, !.width = 0, !.height = 0, !.fps = 0,
              !.capture_audio = FALSE]

DropDelegates(m, bs, ds) ==
    [d \in 1..Len(ds) |-> IF DelegateOwned(m, bs, d) THEN ds[d] ELSE DroppedDelegate]

DropEncoders(m, bs, es) ==
    [e \in 1..Len(es) |->
        IF es[e].owner # NULL /\ DelegateOwned(m, bs, es[e].owner)
        THEN es[e] ELSE DroppedEncoder(es[e])]

DropStreamOutputs(m, os) ==
    [o \in 1..Len(os) |->
        IF m.stream_output = Some(o) THEN os[o] ELSE DroppedStreamOutput(os[o])]

\* The state a control-thread call leaves behind when it returns r.
Commit(m, ss, ds, bs, es, os, r) ==
    /\ mgr' = m
    /\ streams' = ss
    /\ delegates' = DropDelegates(m, bs, ds)
    /\ bridges' = bs
    /\ encoders' = DropEncoders(m, bs, es)
    /\ outputs' = DropStreamOutputs(m, os)
    /\ result' = r
    /\ quiet' = TRUE

CanAllocate ==
    /\ Len(streams) < MaxStarts
    /\ Len(delegates) < MaxStarts
    /\ Len(outputs) < MaxStarts

\* =========================================================================
\* recording.rs  RecordingManager
\* =========================================================================

\* A cleanup that leaves the stream handle in place (what cleanup would be
\* without its first assignment).
cleanup_keeping_stream(m) ==
    [m EXCEPT !.content_filter = None,
              !.delegate_bridge = None,
              !.delegate = None,
              !.stream_output = None,
              !.recording_config = None]

\* recording.rs cleanup
cleanup(m) ==
    [m EXCEPT !.stream = None,
              !.content_filter = None,
              !.delegate_bridge = None,
              !.delegate = None,
              !.stream_output = None,
              !.recording_config = None]

\* recording.rs initialize (also run by start_recording when no shareable
\* content is held): "Ok" or the error it returns.
RecInitializeStatus(env) ==
    IF ~env.permission THEN "Screen recording permission required"
    ELSE IF ~env.content THEN "Failed to get shareable content"
    ELSE "Ok"

RecInitialize(env) ==
    /\ mgr.kind = "recording"
    /\ IsNone(mgr.shareable_content)
    /\ LET st == RecInitializeStatus(env) IN
       /\ mgr' = IF st = "Ok" THEN [mgr EXCEPT !.shareable_content = Some("content")]
                 ELSE mgr
       /\ result' = Returned("initialize", st, "", None)
       /\ quiet' = TRUE
    /\ UNCHANGED <<streams, delegates, bridges, encoders, outputs>>

\* recording.rs start_stream_capture / stop_stream_capture and the same
\* requests of the other managers: the request is handed to the OS, the
\* completion handler only logs.
RequestStart(ss, s) == [ss EXCEPT ![s].state = "starting"]
RequestStop(ss, s) == [ss EXCEPT ![s].state = "stopping"]

\* recording.rs start_recording, line 150: format!("Recording started: {}", path)
started_message(p) ==
    IF p = "/tmp/out.mov" THEN "Recording started: /tmp/out.mov"
    ELSE IF p = "/tmp/b.mp4" THEN "Recording started: /tmp/b.mp4"
    ELSE "Recording started: "

\* recording.rs start_recording, lines 92-94: the configuration is stored
RecStoreConfig(m, config) ==
    [m EXCEPT !.output_path = Some(config.output_path),
              !.recording_config = Some(config)]

RecStartRecording(config, env) ==
    /\ mgr.kind = "recording"
    /\ CanAllocate
    /\ LET v == validate_configuration(config)
           init == IF IsNone(mgr.shareable_content) THEN RecInitializeStatus(env) ELSE "Ok"
           m1 == IF IsNone(mgr.shareable_content)
                 THEN [mgr EXCEPT !.shareable_content = Some("content")] ELSE mgr
           m2 == RecStoreConfig(m1, config)
           m3 == [m2 EXCEPT !.content_filter = Some("Desktop")]
           o  == Len(outputs) + 1
           os == Append(outputs, NewStreamOutput(config))
           m4 == [m3 EXCEPT !.stream_output = Some(o)]
           d  == Len(delegates) + 1
           ds == Append(delegates,
                        NewDelegate(config.output_path, TRUE, env, Len(encoders) + 1))
           es == encoders \o NewDelegateEncoders(config.output_path, env, d)
           b  == Len(bridges) + 1
           nb == ObjCDelegateBridge_new(d, TRUE, create_delegate_bridge(env))
           bs == Append(DropBridge(bridges, m4.delegate_bridge), Unwrap(nb))
           m5 == [m4 EXCEPT !.delegate = Some(d), !.delegate_bridge = Some(b)]
           st == create_stream(TRUE, TRUE, b, env.pattern)
           s  == Len(streams) + 1
           ss == RequestStart(Append(streams, Unwrap(st)), s)
           m6 == [m5 EXCEPT !.stream = Some(s)]
           m7 == [m6 EXCEPT !.is_recording = TRUE]
           R(status) == Returned("start", status, "", Some(config))
       IN
       IF v # "Ok" THEN
           Commit(mgr, streams, delegates, bridges, encoders, outputs, R(v))
       ELSE IF mgr.is_recording THEN
           Commit(mgr, streams, delegates, bridges, encoders, outputs,
                  R("Already recording"))
       ELSE IF init # "Ok" THEN
           Commit(mgr, streams, delegates, bridges, encoders, outputs, R(init))
       ELSE IF ~env.filter THEN
           Commit(m2, streams, delegates, bridges, encoders, outputs,
                  R("Failed to create basic content filter"))
       ELSE IF ~env.stream_config THEN
           Commit(m3, streams, delegates, bridges, encoders, outputs,
                  R("Failed to create stream configuration"))
       ELSE IF IsNone(nb) THEN
           Commit(m4, streams, ds, bridges, es, os,
                  R("Failed to create delegate bridge"))
       ELSE IF IsNone(st) THEN
           Commit(m5, streams, ds, bs, es, os, R("Failed to create stream"))
       ELSE
           Commit(m7, ss, ds, bs, es, os,
                  Returned("start", "Ok", started_message(config.output_path),
                           Some(config)))

\* A guard that looks at the stream handle instead of the recording flag.
RecStopGuard_by_stream(m) == IsSome(m.stream)

\* recording.rs stop_recording, lines 157-163: the guard reads is_recording
RecStopGuard(m) == m.is_recording

RecStopRecording ==
    /\ mgr.kind = "recording"
    /\ IF ~RecStopGuard(mgr) THEN
           Commit(mgr, streams, delegates, bridges, encoders, outputs,
                  Returned("stop", "Not currently recording", "", None))
       ELSE
           LET ss == IF IsSome(mgr.stream)
                     THEN RequestStop(streams, Unwrap(mgr.stream)) ELSE streams
               os == IF IsSome(mgr.stream_output)
                     THEN [outputs EXCEPT ![Unwrap(mgr.stream_output)] =
                               StreamOutput_stop_recording(@)]
                     ELSE outputs
               output_path ==
                     IF IsSome(mgr.stream_output)
                     THEN outputs[Unwrap(mgr.stream_output)].output_path
                     ELSE IF IsSome(mgr.output_path) THEN Unwrap(mgr.output_path)
                     ELSE ""
               m1 == [mgr EXCEPT !.is_recording = FALSE]
           IN Commit(cleanup(m1), ss, delegates,
                     DropBridge(bridges, mgr.delegate_bridge), encoders, os,
                     Returned("stop", "Ok", output_path, None))

\* =========================================================================
\* encoder.rs and delegate.rs: what the callbacks do
\* =========================================================================

\* encoder.rs VideoEncoder::encode_frame / AudioEncoder::encode_audio_buffer:
\* ready is isReadyForMoreMediaData, ok the result of the append.
encode_frame(e, ready, ok) ==
    IF ~e.is_recording THEN e
    ELSE IF ~ready THEN e
    ELSE IF ~ok THEN e
    ELSE [e EXCEPT !.frame_count = @ + 1]

\* A finalize_encoding that finishes the writer whatever is_recording says.
finalize_encoding_unguarded(e) ==
    [e EXCEPT !.is_recording = FALSE, !.writer = "finished",
              !.finish_calls = @ + 1]

\* encoder.rs finalize_encoding (both encoders)
finalize_encoding(e) ==
    IF ~e.is_recording THEN e
    ELSE [e EXCEPT !.is_recording = FALSE, !.writer = "finished",
                   !.finish_calls = @ + 1]

\* delegate.rs handle_video_sample_buffer + process_video_sample_buffer
handle_video_sample_buffer(ds, d) == [ds EXCEPT ![d].frame_count = @ + 1]

video_sample_encoders(es, dl, ready, ok) ==
    IF IsSome(dl.video_encoder)
    THEN [es EXCEPT ![Unwrap(dl.video_encoder)] = encode_frame(@, ready, ok)]
    ELSE es

\* delegate.rs handle_audio_sample_buffer + process_audio_sample_buffer
handle_audio_sample_buffer(ds, d) == [ds EXCEPT ![d].audio_frame_count = @ + 1]

audio_sample_encoders(es, dl, ready, ok) ==
    IF IsSome(dl.audio_encoder)
    THEN [es EXCEPT ![Unwrap(dl.audio_encoder)] = encode_frame(@, ready, ok)]
    ELSE es

\* delegate.rs handle_stream_stopped: the recording flag is cleared and both
\* encoders are finalized.
stream_stopped_encoders(es, dl) ==
    LET e1 == IF IsSome(dl.video_encoder)
              THEN [es EXCEPT ![Unwrap(dl.video_encoder)] = finalize_encoding(@)]
              ELSE es
    IN IF IsSome(dl.audio_encoder)
       THEN [e1 EXCEPT ![Unwrap(dl.audio_encoder)] = finalize_encoding(@)]
       ELSE e1

stream_stopped_flag(m, dl) ==
    IF dl.shared_flag THEN [m EXCEPT !.is_recording = FALSE] ELSE m

stream_stopped_delegates(ds, d) ==
    IF ds[d].shared_flag THEN ds ELSE [ds EXCEPT ![d].own_flag = FALSE]

\* =========================================================================
\* The OS capture service
\* =========================================================================

\* The delegate a callback of stream s reaches through its bridge (0: none).
CallbackTarget(s) ==
    LET b == streams[s].delegate IN
    IF b >= 1 /\ ~bridges[b].released /\ ~delegates[bridges[b].delegate].dropped
    THEN bridges[b].delegate ELSE 0

\* completion handler of startCaptureWithCompletionHandler
OSStartCompleted(s, ok) ==
    /\ s \in 1..Len(streams)
    /\ streams[s].state = "starting"
    /\ streams' = [streams EXCEPT ![s].state = IF ok THEN "running" ELSE "failed"]
    /\ quiet' = FALSE
    /\ UNCHANGED <<mgr, delegates, bridges, encoders, outputs, result>>

\* completion handler of stopCaptureWithCompletionHandler
OSStopCompleted(s, ok) ==
    /\ s \in 1..Len(streams)
    /\ streams[s].state = "stopping"
    /\ streams' = [streams EXCEPT ![s].state = "stopped"]
    /\ quiet' = FALSE
    /\ UNCHANGED <<mgr, delegates, bridges, encoders, outputs, result>>

\* objc_bridge_rust.rs video_callback_bridge
OSVideoSample(s, ready, ok) ==
    /\ s \in 1..Len(streams)
    /\ streams[s].state = "running"
    /\ CallbackTarget(s) # 0
    /\ LET d == CallbackTarget(s) IN
       /\ delegates[d].frame_count + delegates[d].audio_frame_count < MaxSamples
       /\ delegates' = handle_video_sample_buffer(delegates, d)
       /\ encoders' = video_sample_encoders(encoders, delegates[d], ready, ok)
    /\ quiet' = FALSE
    /\ UNCHANGED <<mgr, streams, bridges, outputs, result>>

\* objc_bridge_rust.rs audio_callback_bridge
OSAudioSample(s, ready, ok) ==
    /\ s \in 1..Len(streams)
    /\ streams[s].state = "running"
    /\ CallbackTarget(s) # 0
    /\ LET d == CallbackTarget(s) IN
       /\ delegates[d].frame_count + delegates[d].audio_frame_count < MaxSamples
       /\ delegates' = handle_audio_sample_buffer(delegates, d)
       /\ encoders' = audio_sample_encoders(encoders, delegates[d], ready, ok)
    /\ quiet' = FALSE
    /\ UNCHANGED <<mgr, streams, bridges, outputs, result>>

\* The OS stops a running stream on its own (stream:didStopWithError:);
\* objc_bridge_rust.rs stream_stopped_callback_bridge.
OSStreamStopped(s, with_error) ==
    /\ s \in 1..Len(streams)
    /\ streams[s].state = "running"
    /\ streams' = [streams EXCEPT ![s].state = "ended"]
    /\ LET d == CallbackTarget(s) IN
       IF d # 0
       THEN /\ mgr' = stream_stopped_flag(mgr, delegates[d])
            /\ delegates' = stream_stopped_delegates(delegates, d)
            /\ encoders' = stream_stopped_encoders(encoders, delegates[d])
       ELSE UNCHANGED <<mgr, delegates, encoders>>
    /\ quiet' = FALSE
    /\ UNCHANGED <<bridges, outputs, result>>

\* =========================================================================
\* recording_manager.rs  RecordingManager
\* =========================================================================

\* recording_manager.rs initialize
RMInitialize(env) ==
    /\ mgr.kind = "recording_manager"
    /\ IsNone(mgr.shareable_content)
    /\ mgr' = IF env.content THEN [mgr EXCEPT !.shareable_content = Some("content")]
              ELSE mgr
    /\ result' = Returned("initialize",
                          IF env.content THEN "Ok" ELSE "Failed to get shareable content",
                          "", None)
    /\ quiet' = TRUE
    /\ UNCHANGED <<streams, delegates, bridges, encoders, outputs>>

\* stream_output.rs initialize_asset_writer on success, then start_recording
StreamOutput_initialize_asset_writer(o) == [o EXCEPT !.asset_writer = TRUE]
StreamOutput_start_recording(o) == [o EXCEPT !.is_recording = TRUE]

\* A store that drops the StreamOutput instead of keeping it.
RMStoreState_without_output(m, o, s, config) ==
    [m EXCEPT !.stream = Some(s),
              !.recording_config = Some(config),
              !.output_path = Some(config.output_path),
              !.is_recording = TRUE]

\* recording_manager.rs start_recording, lines 132-140: the state is stored
RMStoreState(m, o, s, config) ==
    [m EXCEPT !.stream_output = Some(o),
              !.stream = Some(s),
              !.recording_config = Some(config),
              !.output_path = Some(config.output_path),
              !.is_recording = TRUE]

RMStartRecording(config, env) ==
    /\ mgr.kind = "recording_manager"
    /\ CanAllocate
    /\ LET v == validate_recording_configuration(config)
           o  == Len(outputs) + 1
           o1 == StreamOutput_initialize_asset_writer(NewStreamOutput(config))
           os1 == Append(outputs, o1)
           st == create_stream(TRUE, env.stream_config, NSObjectDelegate, env.pattern)
           s  == Len(streams) + 1
           os2 == Append(outputs, StreamOutput_start_recording(o1))
           ss == RequestStart(Append(streams, Unwrap(st)), s)
           R(status) == Returned("start", status, "", Some(config))
       IN
       IF v # "Ok" THEN
           Commit(mgr, streams, delegates, bridges, encoders, outputs, R(v))
       ELSE IF ~env.directory THEN
           Commit(mgr, streams, delegates, bridges, encoders, outputs,
                  R("Failed to create output directory"))
       ELSE IF ~env.asset_writer THEN
           Commit(mgr, streams, delegates, bridges, encoders, outputs,
                  R("Failed to create AVAssetWriter"))
       ELSE IF IsNone(mgr.shareable_content) THEN
           Commit(mgr, streams, delegates, bridges, encoders, os1,
                  R("Shareable content not initialized"))
       ELSE IF ~env.filter THEN
           Commit(mgr, streams, delegates, bridges, encoders, os1,
                  R("Failed to create basic content filter"))
       ELSE IF IsNone(st) THEN
           Commit(mgr, streams, delegates, bridges, encoders, os1,
                  R("Failed to create ScreenCaptureKit stream"))
       ELSE
           Commit(RMStoreState(mgr, o, s, config), ss, delegates, bridges,
                  encoders, os2, R("Ok"))

RMStopRecording ==
    /\ mgr.kind = "recording_manager"
    /\ LET m1 == [mgr EXCEPT !.is_recording = FALSE]
           ss == IF IsSome(mgr.stream)
                 THEN RequestStop(streams, Unwrap(mgr.stream)) ELSE streams
           m2 == [m1 EXCEPT !.stream = None]
           m3 == [m2 EXCEPT !.stream_output = None]
       IN
       IF IsSome(mgr.stream_output) THEN
           Commit(m3, ss, delegates, bridges, encoders,
                  [outputs EXCEPT ![Unwrap(mgr.stream_output)] =
                       StreamOutput_stop_recording(@)],
                  Returned("stop", "Ok",
                           outputs[Unwrap(mgr.stream_output)].output_path,
                           None))
       ELSE
           Commit(m3, ss, delegates, bridges, encoders, outputs,
                  Returned("stop", "No active recording to stop", "", None))

\* =========================================================================
\* content.rs  RealStreamManager
\* =========================================================================

\* content.rs start_recording, lines 683-687
RSMStoreState(m, s, d, config) ==
    [m EXCEPT !.stream = Some(s),
              !.delegate = Some(d),
              !.is_recording = TRUE,
              !.output_path = Some(config.output_path)]

RSMStartRecording(filter_valid, config, env) ==
    /\ mgr.kind = "content"
    /\ CanAllocate
    /\ LET d  == Len(delegates) + 1
           ds == Append(delegates,
                        NewDelegate(config.output_path, FALSE, env, Len(encoders) + 1))
           es == encoders \o NewDelegateEncoders(config.output_path, env, d)
           b  == Len(bridges) + 1
           nb == ObjCDelegateBridge_new(d, FALSE, create_delegate_bridge(env))
           bs == Append(bridges, Unwrap(nb))
           st == create_stream(TRUE, TRUE, b, env.pattern)
           s  == Len(streams) + 1
           ss == RequestStart(Append(streams, Unwrap(st)), s)
           R(status) == Returned("start", status, "", Some(config))
       IN
       IF ~filter_valid THEN
           Commit(mgr, streams, delegates, bridges, encoders, outputs,
                  R("Invalid content filter"))
       ELSE IF ~env.stream_config THEN
           Commit(mgr, streams, delegates, bridges, encoders, outputs,
                  R("Failed to create stream configuration"))
       ELSE IF IsNone(nb) THEN
           Commit(mgr, streams, ds, bridges, es, outputs,
                  R("Failed to create stream delegate"))
       ELSE IF IsNone(st) THEN
           Commit(mgr, streams, ds, bs, es, outputs, R("Failed to create SCStream"))
       ELSE
           Commit(RSMStoreState(mgr, s, d, config), ss, ds, bs, es, outputs,
                  R("Ok"))

RSMStopRecording ==
    /\ mgr.kind = "content"
    /\ IF IsSome(mgr.stream) THEN
           LET ss == RequestStop(streams, Unwrap(mgr.stream))
               m1 == [mgr EXCEPT !.is_recording = FALSE, !.stream = None]
               d  == Unwrap(mgr.delegate)
               ds == IF IsSome(mgr.delegate)
                     THEN stream_stopped_delegates(delegates, d) ELSE delegates
               es == IF IsSome(mgr.delegate)
                     THEN stream_stopped_encoders(encoders, delegates[d]) ELSE encoders
               output_path == IF IsSome(mgr.output_path) THEN Unwrap(mgr.output_path)
                              ELSE "/tmp/recording.mp4"
           IN Commit([m1 EXCEPT !.delegate = None], ss, ds, bridges, es, outputs,
                     Returned("stop", "Ok", output_path, None))
       ELSE
           Commit(mgr, streams, delegates, bridges, encoders, outputs,
                  Returned("stop", "No active recording session", "", None))

\* =========================================================================
Next ==
    \/ \E env \in LifecycleOutcomes : RecInitialize(env)
    \/ \E config \in ValidConfigs, env \in LifecycleOutcomes : RecStartRecording(config, env)
    \/ \E config \in InvalidConfigs : RecStartRecording(config, AllSucceed)
    \/ RecStopRecording
    \/ \E env \in LifecycleOutcomes : RMInitialize(env)
    \/ \E config \in ValidConfigs, env \in LifecycleOutcomes : RMStartRecording(config, env)
    \/ \E config \in InvalidConfigs : RMStartRecording(config, AllSucceed)
    \/ RMStopRecording
    \/ \E config \in Configs, env \in LifecycleOutcomes : RSMStartRecording(TRUE, config, env)
    \/ \E config \in Configs : RSMStartRecording(FALSE, config, AllSucceed)
    \/ RSMStopRecording
    \/ \E s \in 1..MaxStarts, ok \in BOOLEAN : OSStartCompleted(s, ok)
    \/ \E s \in 1..MaxStarts, ok \in BOOLEAN : OSStopCompleted(s, ok)
    \/ \E s \in 1..MaxStarts, ready \in BOOLEAN, ok \in BOOLEAN :
           OSVideoSample(s, ready, ok)
    \/ \E s \in 1..MaxStarts, ready \in BOOLEAN, ok \in BOOLEAN :
           OSAudioSample(s, ready, ok)
    \/ \E s \in 1..MaxStarts, e \in BOOLEAN : OSStreamStopped(s, e)

Spec == Init /\ [][Next]_vars

TypeOK ==
    /\ mgr.kind \in Kinds
    /\ mgr.is_recording \in BOOLEAN
    /\ Len(streams) <= MaxStarts
    /\ Len(delegates) <= MaxStarts
    /\ Len(outputs) <= MaxStarts

\* =========================================================================
\* The sinks under samples that carry presentation times
\*
\* A second specification: one session that has been started, its stream
\* running, and the samples the OS hands to its sink.  In recording.rs the
\* sink is the RealStreamDelegate with its two encoders (reached through the
\* bridge callbacks); in recording_manager.rs it is the StreamOutput (reached
\* through RecordingManager::handle_sample_buffer).  The lifecycle
\* specification above leaves presentation times out; here every sample
\* carries one.
\* =========================================================================
MaxTime == 1          \* presentation time values are 0..MaxTime
MaxSinkSamples == 2   \* samples a sink counts
MaxSinkStops == 2     \* calls of StreamOutput::stop_recording on one StreamOutput

\* CMTime: value / timescale seconds
CMTime(v, ts) == [value |-> v, timescale |-> ts]
kCMTimeZero == CMTime(0, 1)
TimeScales == {30, 60}
SampleTimes == {CMTime(v, ts) : v \in 0..MaxTime, ts \in TimeScales}

\* A sample buffer as the OS delivers it, with the answers the native writer
\* gives while it is handled: pts its presentation time, pixels whether it
\* holds an image buffer, start_ok the result of startWriting, ready the
\* value of isReadyForMoreMediaData, ok the result of the append.
Samples ==
    [pts : SampleTimes, pixels : BOOLEAN, start_ok : BOOLEAN, ready : BOOLEAN,
     ok : BOOLEAN]

\* encoder.rs VideoEncoder::new / AudioEncoder::new, with start_time and the
\* state of the native writer that concerns time: session_start is the time
\* given to startSessionAtSourceTime (AudioEncoder::new gives kCMTimeZero),
\* appended the presentation times appended to the track.
NewTimedEncoder(kind, path, owner) ==
    [start_time |-> None,
     session_start |-> IF kind = "audio" THEN Some(kCMTimeZero) ELSE None,
     appended |-> <<>>] @@ NewEncoder(kind, path, owner)

\* encoder.rs encode_frame, lines 119-129: the time a frame is appended with
frame_time(e) ==
    LET start == Unwrap(e.start_time) IN
    CMTime(start.value + ((e.frame_count * start.timescale) \div 30), start.timescale)

\* encoder.rs VideoEncoder::encode_frame with its presentation time
VideoEncoder_encode_frame(e, sample) ==
    LET e1 == IF e.is_recording /\ IsNone(e.start_time)
              THEN [e EXCEPT !.start_time = Some(sample.pts),
                             !.session_start = Some(sample.pts)]
              ELSE e
        e2 == encode_frame(e1, sample.ready, sample.ok)
    IN IF e2.frame_count > e1.frame_count
       THEN [e2 EXCEPT !.appended = Append(@, frame_time(e1))]
       ELSE e2

\* encoder.rs AudioEncoder::encode_audio_buffer: the buffer is appended as it is
AudioEncoder_encode_audio_buffer(e, sample) ==
    LET e2 == encode_frame(e, sample.ready, sample.ok)
    IN IF e2.frame_count > e.frame_count
       THEN [e2 EXCEPT !.appended = Append(@, sample.pts)]
       ELSE e2

\* What encode_frame / encode_audio_buffer return
encode_status(e, sample) ==
    IF e.is_recording /\ sample.ready /\ ~sample.ok
    THEN (IF e.kind = "video" THEN "Failed to encode frame" ELSE "Failed to encode audio")
    ELSE "Ok"

\* A delegate that hands the encoder's error back to the callback.
process_sample_buffer_propagating(status) == status

\* delegate.rs process_video_sample_buffer / process_audio_sample_buffer: the
\* encoder's result is matched, an Err is logged, the function returns ().
process_sample_buffer(status) == "Ok"

\* stream_output.rs StreamOutput after initialize_asset_writer, with
\* start_time and the presentation times appended to the two inputs.
TimedStreamOutput(o) ==
    [start_time |-> None, video_appended |-> <<>>, audio_appended |-> <<>>] @@ o

\* stream_output.rs ensure_recording_started: what it returns and what it
\* leaves behind.
ensure_recording_started_status(o, sample) ==
    IF ~o.recording_started /\ o.asset_writer /\ ~sample.start_ok
    THEN "Failed to start writing session" ELSE "Ok"

ensure_recording_started(o, sample) ==
    IF ~o.recording_started /\ o.asset_writer /\ sample.start_ok
    THEN [o EXCEPT !.start_time = Some(sample.pts), !.recording_started = TRUE]
    ELSE o

\* A handle_video_sample that counts a frame only when it was appended.
handle_video_sample_counting_appended(o, sample) ==
    IF ensure_recording_started_status(o, sample) # "Ok" THEN o
    ELSE LET o1 == ensure_recording_started(o, sample) IN
         IF o1.asset_writer /\ sample.ready /\ sample.pixels /\ sample.ok
         THEN [o1 EXCEPT !.video_frame_count = @ + 1,
                         !.video_appended = Append(@, sample.pts)]
         ELSE o1

\* stream_output.rs StreamOutput::handle_video_sample
handle_video_sample(o, sample) ==
    IF ensure_recording_started_status(o, sample) # "Ok" THEN o
    ELSE LET o1 == ensure_recording_started(o, sample)
             o2 == [o1 EXCEPT !.video_frame_count = @ + 1]
         IN IF o2.asset_writer /\ sample.ready /\ sample.pixels /\ sample.ok
            THEN [o2 EXCEPT !.video_appended = Append(@, sample.pts)]
            ELSE o2

\* stream_output.rs StreamOutput::handle_audio_sample
handle_audio_sample(o, sample) ==
    IF ~o.capture_audio THEN o
    ELSE IF ensure_recording_started_status(o, sample) # "Ok" THEN o
    ELSE LET o1 == ensure_recording_started(o, sample)
             o2 == [o1 EXCEPT !.audio_sample_count = @ + 1]
         IN IF o2.asset_writer /\ sample.ready /\ sample.ok
            THEN [o2 EXCEPT !.audio_appended = Append(@, sample.pts)]
            ELSE o2

handle_sample_status(o, type, sample) ==
    IF type = "audio" /\ ~o.capture_audio THEN "Ok"
    ELSE ensure_recording_started_status(o, sample)

\* The configurations and encoder outcomes the sink specification starts from.
SinkConfigs == {c \in ValidConfigs : c.width # NoValue}
SinkOutcomes ==
    { [AllSucceed EXCEPT !.video_encoder = v, !.audio_encoder = a] :
          v \in BOOLEAN, a \in BOOLEAN }

\* The stream of the session: running, with the sample it delivered last.
SinkStream(delegate) == [delegate |-> delegate, state |-> "running", sample |-> None]

\* recording.rs: the manager as start_recording leaves it (lines 92-147)
RecStarted(config) ==
    [RecStoreConfig(NewManager("recording"), config) EXCEPT
         !.shareable_content = Some("content"),
         !.content_filter = Some("Desktop"),
         !.stream_output = Some(1),
         !.delegate = Some(1),
         !.delegate_bridge = Some(1),
         !.stream = Some(1),
         !.is_recording = TRUE]

\* recording_manager.rs: the manager as initialize and start_recording leave it
RMStarted(config) ==
    RMStoreState([NewManager("recording_manager") EXCEPT
                      !.shareable_content = Some("content")],
                 1, 1, config)

SinkInit ==
    \E config \in SinkConfigs, env \in SinkOutcomes :
        /\ \/ /\ mgr = RecStarted(config)
              /\ streams = <<SinkStream(1)>>
              /\ delegates = <<NewDelegate(config.output_path, TRUE, env, 1)>>
              /\ bridges = <<NewBridge(1, TRUE)>>
              /\ encoders =
                     (IF env.video_encoder
                      THEN <<NewTimedEncoder("video", config.output_path, 1)>>
                      ELSE <<>>)
                     \o (IF env.audio_encoder
                         THEN <<NewTimedEncoder("audio", audio_path(config.output_path), 1)>>
                         ELSE <<>>)
              /\ outputs = <<NewStreamOutput(config)>>
           \/ /\ env = AllSucceed
              /\ mgr = RMStarted(config)
              /\ streams = <<SinkStream(NSObjectDelegate)>>
              /\ delegates = <<>>
              /\ bridges = <<>>
              /\ encoders = <<>>
              /\ outputs =
                     <<TimedStreamOutput(
                           StreamOutput_start_recording(
                               StreamOutput_initialize_asset_writer(
                                   NewStreamOutput(config))))>>
        /\ result = NoResult
        /\ quiet = TRUE

\* objc_bridge_rust.rs video_callback_bridge -> handle_video_sample_buffer
SinkVideoCallback(sample) ==
    /\ mgr.kind = "recording"
    /\ CallbackTarget(1) # 0
    /\ LET d == CallbackTarget(1)
           dl == delegates[d]
       IN
       /\ dl.frame_count + dl.audio_frame_count < MaxSinkSamples
       /\ delegates' = handle_video_sample_buffer(delegates, d)
       /\ encoders' = IF IsSome(dl.video_encoder)
                      THEN [encoders EXCEPT ![Unwrap(dl.video_encoder)] =
                                VideoEncoder_encode_frame(@, sample)]
                      ELSE encoders
       /\ result' = Returned("video",
                             IF IsSome(dl.video_encoder)
                             THEN process_sample_buffer(
                                      encode_status(encoders[Unwrap(dl.video_encoder)],
                                                    sample))
                             ELSE "Ok",
                             "", None)
    /\ streams' = [streams EXCEPT ![1].sample = Some(sample)]
    /\ quiet' = FALSE
    /\ UNCHANGED <<mgr, bridges, outputs>>

\* objc_bridge_rust.rs audio_callback_bridge -> handle_audio_sample_buffer
SinkAudioCallback(sample) ==
    /\ mgr.kind = "recording"
    /\ CallbackTarget(1) # 0
    /\ LET d == CallbackTarget(1)
           dl == delegates[d]
       IN
       /\ dl.frame_count + dl.audio_frame_count < MaxSinkSamples
       /\ delegates' = handle_audio_sample_buffer(delegates, d)
       /\ encoders' = IF IsSome(dl.audio_encoder)
                      THEN [encoders EXCEPT ![Unwrap(dl.audio_encoder)] =
                                AudioEncoder_encode_audio_buffer(@, sample)]
                      ELSE encoders
       /\ result' = Returned("audio",
                             IF IsSome(dl.audio_encoder)
                             THEN process_sample_buffer(
                                      encode_status(encoders[Unwrap(dl.audio_encoder)],
                                                    sample))
                             ELSE "Ok",
                             "", None)
    /\ streams' = [streams EXCEPT ![1].sample = Some(sample)]
    /\ quiet' = FALSE
    /\ UNCHANGED <<mgr, bridges, outputs>>

\* objc_bridge_rust.rs stream_stopped_callback_bridge -> handle_stream_stopped
SinkStreamStopped ==
    /\ mgr.kind = "recording"
    /\ streams[1].state = "running"
    /\ CallbackTarget(1) # 0
    /\ LET d == CallbackTarget(1) IN
       /\ mgr' = stream_stopped_flag(mgr, delegates[d])
       /\ delegates' = stream_stopped_delegates(delegates, d)
       /\ encoders' = stream_stopped_encoders(encoders, delegates[d])
    /\ streams' = [streams EXCEPT ![1].state = "ended"]
    /\ result' = Returned("stopped", "Ok", "", None)
    /\ quiet' = FALSE
    /\ UNCHANGED <<bridges, outputs>>

\* encoder.rs finalize_encoding called on encoder e: Ok(output_url)
SinkFinalizeEncoder(e) ==
    /\ mgr.kind = "recording"
    /\ e \in 1..Len(encoders)
    /\ encoders' = [encoders EXCEPT ![e] = finalize_encoding(@)]
    /\ result' = Returned(IF encoders[e].kind = "video" THEN "finalize_video"
                          ELSE "finalize_audio",
                          "Ok", encoders[e].output_url, None)
    /\ quiet' = TRUE
    /\ UNCHANGED <<mgr, streams, delegates, bridges, outputs>>

\* recording_manager.rs handle_sample_buffer -> StreamOutput::handle_video_sample
\* or handle_audio_sample; the handler's Err is returned with `?`.  A writer
\* that was finished starts and appends nothing any more.
SinkHandleSampleBuffer(type, sample) ==
    /\ mgr.kind = "recording_manager"
    /\ IsSome(mgr.stream_output)
    /\ LET o == Unwrap(mgr.stream_output) IN
       /\ outputs[o].video_frame_count + outputs[o].audio_sample_count < MaxSinkSamples
       /\ outputs[o].finish_calls > 0 => (~sample.start_ok /\ ~sample.ok)
       /\ outputs' = [outputs EXCEPT ![o] =
                          IF type = "video" THEN handle_video_sample(@, sample)
                          ELSE handle_audio_sample(@, sample)]
       /\ result' = Returned(type, handle_sample_status(outputs[o], type, sample),
                             "", None)
    /\ streams' = [streams EXCEPT ![1].sample = Some(sample)]
    /\ quiet' = FALSE
    /\ UNCHANGED <<mgr, delegates, bridges, encoders>>

\* stream_output.rs StreamOutput::stop_recording called on the StreamOutput
SinkStopOutput ==
    /\ mgr.kind = "recording_manager"
    /\ IsSome(mgr.stream_output)
    /\ LET o == Unwrap(mgr.stream_output) IN
       /\ outputs[o].finish_calls < MaxSinkStops
       /\ outputs' = [outputs EXCEPT ![o] = StreamOutput_stop_recording(@)]
       /\ result' = Returned("finalize_output", "Ok", outputs[o].output_path, None)
    /\ quiet' = TRUE
    /\ UNCHANGED <<mgr, streams, delegates, bridges, encoders>>

\* The bridge callbacks reach the encoders, which never call startWriting and
\* never look for an image buffer.
CallbackSamples == {sample \in Samples : sample.pixels /\ sample.start_ok}

SinkNext ==
    \/ \E sample \in CallbackSamples : SinkVideoCallback(sample)
    \/ \E sample \in CallbackSamples : SinkAudioCallback(sample)
    \/ SinkStreamStopped
    \/ \E e \in 1..2 : SinkFinalizeEncoder(e)
    \/ \E type \in {"video", "audio"}, sample \in Samples :
           SinkHandleSampleBuffer(type, sample)
    \/ SinkStopOutput

SinkSpec == SinkInit /\ [][SinkNext]_vars

\* =========================================================================
\* The services a session is set up with: permissions, the content catalog,
\* content filters and stream construction
\*
\* A third specification.  Its calls are functions of their arguments, of the
\* catalog the manager holds and of the answers of the OS; every call leaves
\* in result what it returned together with the native calls it made, in the
\* order it made them, each with the answer it got.
\* =========================================================================
Call(fn, ret) == [fn |-> fn, ret |-> ret]

\* What a service call leaves in result
Served(op, status, value, calls) ==
    [calls |-> calls] @@ Returned(op, status, value, None)

\* ------------------------------------------------------------ permissions
\* The answers of the OS: CGPreflightScreenCaptureAccess,
\* CGRequestScreenCaptureAccess, the sw_vers version test, AXIsProcessTrusted.
PermissionAnswers ==
    [preflight : BOOLEAN, request : BOOLEAN, version : BOOLEAN, accessibility : BOOLEAN]

PermissionRequired ==
    "Screen recording permission is required. Please enable it in System Preferences."

\* permissions.rs PermissionManager::check_permission
check_permission(os) ==
    [calls |-> <<Call("CGPreflightScreenCaptureAccess", os.preflight)>>,
     value |-> IF os.preflight THEN "Granted" ELSE "Denied"]

\* permissions.rs PermissionManager::request_permission
request_permission(os) ==
    [calls |-> <<Call("CGRequestScreenCaptureAccess", os.request)>>,
     value |-> IF os.request THEN "Granted" ELSE "Denied"]

\* An ensure_permission that asks the OS for the permission straight away.
ensure_permission_without_check(os) ==
    LET r == request_permission(os) IN
    [calls |-> r.calls,
     status |-> IF r.value = "Granted" THEN "Ok" ELSE PermissionRequired]

\* permissions.rs PermissionManager::ensure_permission
ensure_permission(os) ==
    LET c == check_permission(os)
        r == request_permission(os)
    IN IF c.value = "Granted" THEN [calls |-> c.calls, status |-> "Ok"]
       ELSE [calls |-> c.calls \o r.calls,
             status |-> IF r.value = "Granted" THEN "Ok" ELSE PermissionRequired]

\* permissions.rs PermissionManager::check_screen_recording_permission
check_screen_recording_permission(os) ==
    LET e == ensure_permission(os) IN
    [calls |-> e.calls, value |-> e.status = "Ok"]

\* permission_manager.rs PermissionManager::ensure_all_permissions
ensure_all_permissions(os) ==
    LET version == <<Call("sw_vers", os.version)>>
        check == <<Call("CGPreflightScreenCaptureAccess", os.preflight)>>
        request == <<Call("CGRequestScreenCaptureAccess", os.request)>>
        accessibility ==
            <<Call("AXIsProcessTrusted", os.accessibility)>>
            \o (IF os.accessibility THEN <<>>
                ELSE <<Call("AXIsProcessTrustedWithOptions", os.accessibility)>>)
    IN IF ~os.version
       THEN [calls |-> version,
             status |-> "macOS 10.15 (Catalina) or later is required for ScreenCaptureKit"]
       ELSE IF os.preflight
       THEN [calls |-> version \o check \o accessibility, status |-> "Ok"]
       ELSE IF ~os.request
       THEN [calls |-> version \o check \o request,
             status |-> "Screen recording permission is required. Please enable it in System Preferences > Security & Privacy > Privacy > Screen Recording"]
       ELSE [calls |-> version \o check \o request \o accessibility, status |-> "Ok"]

\* A service call that changes nothing but result
Serve(r) ==
    /\ result' = r
    /\ quiet' = TRUE
    /\ UNCHANGED <<mgr, streams, delegates, bridges, encoders, outputs>>

CheckPermission(os) ==
    /\ mgr.kind = "recorder"
    /\ LET c == check_permission(os) IN
       Serve(Served("check_permission", "Ok", c.value, c.calls))

CheckScreenRecordingPermission(os) ==
    /\ mgr.kind = "recorder"
    /\ LET c == check_screen_recording_permission(os) IN
       Serve(Served("check_screen_recording_permission", "Ok",
                    IF c.value THEN "true" ELSE "false", c.calls))

EnsurePermission(os) ==
    /\ mgr.kind = "recorder"
    /\ LET e == ensure_permission(os) IN
       Serve(Served("ensure_permission", e.status, "", e.calls))

EnsureAllPermissions(os) ==
    /\ mgr.kind = "recorder"
    /\ LET e == ensure_all_permissions(os) IN
       Serve(Served("ensure_all_permissions", e.status, "", e.calls))

\* recording.rs RecordingManager::initialize, with the native calls of its
\* permission check
RecInitializeServed(os, env) ==
    /\ mgr.kind = "recording"
    /\ IsNone(mgr.shareable_content)
    /\ LET c == check_screen_recording_permission(os)
           st == RecInitializeStatus([env EXCEPT !.permission = c.value])
       IN
       /\ mgr' = IF st = "Ok" THEN [mgr EXCEPT !.shareable_content = Some("content")]
                 ELSE mgr
       /\ result' = Served("initialize", st, "", c.calls)
       /\ quiet' = TRUE
    /\ UNCHANGED <<streams, delegates, bridges, encoders, outputs>>

\* ------------------------------------------------------------ the catalog
MinWindowSize == 100     \* content.rs: windows below 100 px are dropped
DefaultWindowWidth == 800
DefaultWindowHeight == 600

\* A window dictionary of CGWindowListCopyWindowInfo: kCGWindowNumber,
\* kCGWindowName, kCGWindowOwnerName and kCGWindowBounds, each present or not.
WindowSizes == {MinWindowSize - 1, MinWindowSize, MinWindowSize + 1}
WindowDicts ==
    [number : {None, Some(7)},
     name : {None, Some(""), Some("Mail")},
     owner : {None, Some(""), Some("Finder")},
     bounds : {None} \cup {Some([Width |-> w, Height |-> h]) :
                               w \in WindowSizes, h \in WindowSizes}]

\* The answers of the OS to an enumeration: whether SCShareableContent could
\* be fetched, CGGetActiveDisplayList (ok: result code 0) and
\* CGWindowListCopyWindowInfo (null, or an array of dictionaries).
MaxWindows == 1       \* dictionaries in one window list
MaxDisplays == 1      \* active displays
DisplayLists ==
    {[ok |-> FALSE, displays |-> <<>>]}
    \cup {[ok |-> TRUE,
           displays |-> [i \in 1..n |-> [id |-> i, width |-> 1920, height |-> 1080]]] :
              n \in 0..MaxDisplays}
WindowLists ==
    {[null |-> TRUE, windows |-> <<>>]}
    \cup {[null |-> FALSE, windows |-> <<>>]}
    \cup {[null |-> FALSE, windows |-> [i \in 1..MaxWindows |-> w]] : w \in WindowDicts}
CatalogAnswers ==
    [sc_content : BOOLEAN, display_list : DisplayLists, window_list : WindowLists]

\* content.rs get_display_count_safe
get_display_count_safe(os) ==
    IF os.display_list.ok THEN Len(os.display_list.displays) ELSE 1

\* content.rs get_display_info_safe; index counts from 0
get_display_info_safe(os, index) ==
    IF os.display_list.ok /\ index < Len(os.display_list.displays)
    THEN LET d == os.display_list.displays[index + 1] IN
         Some([id |-> d.id,
               name |-> IF index = 0 THEN "Built-in Display" ELSE "Display",
               width |-> d.width, height |-> d.height])
    ELSE None

\* content.rs get_fallback_window_info
get_fallback_window_info ==
    <<[id |-> 1, title |-> "Desktop", width |-> 1920, height |-> 1080],
      [id |-> 2, title |-> "Finder", width |-> DefaultWindowWidth,
       height |-> DefaultWindowHeight]>>

\* content.rs extract_window_info_from_dict: the title it settles on
window_title(dict) ==
    LET owner == IF IsSome(dict.owner) THEN Unwrap(dict.owner) ELSE "Unknown Window" IN
    IF IsSome(dict.name)
    THEN (IF Unwrap(dict.name) # "" THEN Unwrap(dict.name) ELSE owner)
    ELSE owner

\* An extraction that drops a window of exactly the minimum size.
extract_window_info_from_dict_above_minimum(dict, fallback_id) ==
    LET title == window_title(dict)
        width == IF IsSome(dict.bounds) THEN Unwrap(dict.bounds).Width
                 ELSE DefaultWindowWidth
        height == IF IsSome(dict.bounds) THEN Unwrap(dict.bounds).Height
                  ELSE DefaultWindowHeight
    IN IF title = "" \/ width <= MinWindowSize \/ height <= MinWindowSize THEN None
       ELSE Some([id |-> IF IsSome(dict.number) THEN Unwrap(dict.number) ELSE fallback_id,
                  title |-> title, width |-> width, height |-> height])

\* content.rs extract_window_info_from_dict
extract_window_info_from_dict(dict, fallback_id) ==
    LET title == window_title(dict)
        width == IF IsSome(dict.bounds) THEN Unwrap(dict.bounds).Width
                 ELSE DefaultWindowWidth
        height == IF IsSome(dict.bounds) THEN Unwrap(dict.bounds).Height
                  ELSE DefaultWindowHeight
    IN IF title = "" \/ width < MinWindowSize \/ height < MinWindowSize THEN None
       ELSE Some([id |-> IF IsSome(dict.number) THEN Unwrap(dict.number) ELSE fallback_id,
                  title |-> title, width |-> width, height |-> height])

\* The elements of a sequence of options that are Some, in order
RECURSIVE Somes(_)
Somes(opts) ==
    IF opts = <<>> THEN <<>>
    ELSE Head(opts) \o Somes(Tail(opts))

\* A window query that returns what it extracted even if that is nothing.
get_real_window_info_without_fallback(os) ==
    IF os.window_list.null THEN <<>>
    ELSE Somes([i \in 1..Len(os.window_list.windows) |->
                    extract_window_info_from_dict(os.window_list.windows[i], i - 1)])

\* content.rs get_real_window_info
get_real_window_info(os) ==
    IF os.window_list.null THEN get_fallback_window_info
    ELSE LET windows ==
                 Somes([i \in 1..Len(os.window_list.windows) |->
                            extract_window_info_from_dict(os.window_list.windows[i], i - 1)])
         IN IF windows = <<>> THEN get_fallback_window_info ELSE windows

\* content.rs create_safe_system_content
create_safe_system_content(os) ==
    [displays |-> Somes([i \in 1..get_display_count_safe(os) |->
                             get_display_info_safe(os, i - 1)]),
     windows |-> get_real_window_info(os),
     sc_content_ptr |-> None]

\* content.rs ShareableContent::new_with_real_data
new_with_real_data(os) ==
    [create_safe_system_content(os) EXCEPT
         !.sc_content_ptr = IF os.sc_content THEN Some("SCShareableContent") ELSE None]

\* content.rs ShareableContent::new_with_timeout
new_with_timeout(os) == create_safe_system_content(os)

\* The native calls of an enumeration, with their answers
enumeration_calls(how, os) ==
    (IF how = "new_with_real_data"
     THEN <<Call("get_shareable_content_sync", os.sc_content)>> ELSE <<>>)
    \o <<Call("CGGetActiveDisplayList", os.display_list),
         Call("CGWindowListCopyWindowInfo", os.window_list)>>

DisplaySource(display) ==
    [kind |-> "display", id |-> display.id, name |-> display.name,
     width |-> display.width, height |-> display.height, is_display |-> TRUE]

WindowSource(window) ==
    [kind |-> "window", id |-> window.id, name |-> window.title,
     width |-> window.width, height |-> window.height, is_display |-> FALSE]

\* content.rs ContentManager::extract_screen_sources
extract_screen_sources(content) ==
    [i \in 1..Len(content.displays) |-> DisplaySource(content.displays[i])]
    \o Somes([i \in 1..Len(content.windows) |->
                  LET window == content.windows[i] IN
                  IF window.title # "" /\ window.width > MinWindowSize
                         /\ window.height > MinWindowSize
                  THEN Some(WindowSource(window)) ELSE None])

\* lib.rs ScreenCaptureKitRecorder::get_available_screens (how =
\* "new_with_real_data") and get_available_screens_with_timeout (how =
\* "new_with_timeout"): the cached catalog is used if there is one, otherwise
\* a snapshot is taken and kept in current_content.
GetAvailableScreens(how) ==
    /\ mgr.kind = "recorder"
    /\ IF IsSome(mgr.shareable_content)
       THEN /\ result' = Served(how, "Ok",
                                extract_screen_sources(Unwrap(mgr.shareable_content)),
                                <<>>)
            /\ mgr' = mgr
       ELSE \E os \in CatalogAnswers :
            LET content == IF how = "new_with_real_data" THEN new_with_real_data(os)
                           ELSE new_with_timeout(os)
            IN /\ result' = Served(how, "Ok", extract_screen_sources(content),
                                   enumeration_calls(how, os))
               /\ mgr' = [mgr EXCEPT !.shareable_content = Some(content)]
    /\ quiet' = TRUE
    /\ UNCHANGED <<streams, delegates, bridges, encoders, outputs>>

\* ------------------------------------------------------------ content filters
\* The answers of the OS while a filter is created: the permission preflight,
\* whether the live content lists the requested id, and whether each native
\* constructor returns a filter (TRUE) or null (FALSE).
FactoryAnswers ==
    [preflight : BOOLEAN, listed : BOOLEAN, exact : BOOLEAN, basic : BOOLEAN]
HelperAnswers ==
    [from_content : BOOLEAN, main_display : BOOLEAN, desktop_capture : BOOLEAN,
     all_windows : BOOLEAN]

RequestedIds == {1, 7, 999}

\* A filter handle (Some) or null (None) with the tiers a call went through
Filter(type, calls) == [filter |-> Some(type), error |-> "", calls |-> calls]
NoFilter(error, calls) == [filter |-> None, error |-> error, calls |-> calls]

\* filters.rs ContentFilter::new_for_display / new_for_window: Ok(filter) or Err
new_for(what, id, os) ==
    IF ~os.preflight THEN "Screen recording permission required"
    ELSE IF ~os.listed THEN "not found"
    ELSE IF ~os.exact THEN "Failed to create content filter"
    ELSE "Ok"

\* filters.rs ContentFilter::new_basic
new_basic(os) ==
    IF os.basic THEN "Ok" ELSE "Failed to create basic content filter"

\* A factory that puts the basic filter in place of the one it was asked for.
create_filter_always_basic(what, shareable_content, id, os) ==
    LET exact == IF IsSome(shareable_content)
                 THEN <<Call("new_for", new_for(what, id, os) = "Ok")>> ELSE <<>>
        basic == <<Call("new_basic", new_basic(os) = "Ok")>>
    IN IF new_basic(os) = "Ok" THEN Filter("Desktop", exact \o basic)
       ELSE NoFilter(new_basic(os), exact \o basic)

\* filters.rs ContentFilterFactory::create_display_filter / create_window_filter
create_filter(what, shareable_content, id, os) ==
    LET exact == IF IsSome(shareable_content)
                 THEN <<Call("new_for", new_for(what, id, os) = "Ok")>> ELSE <<>>
        basic == <<Call("new_basic", new_basic(os) = "Ok")>>
    IN IF IsSome(shareable_content) /\ new_for(what, id, os) = "Ok"
       THEN Filter(what, exact)
       ELSE IF new_basic(os) = "Ok" THEN Filter("Desktop", exact \o basic)
       ELSE NoFilter(new_basic(os), exact \o basic)

\* bindings.rs ScreenCaptureKitHelpers::create_minimal_content_filter
create_minimal_content_filter(os) ==
    LET m1 == <<Call("minimal.main_display", os.main_display)>>
        m2 == <<Call("minimal.desktop_capture", os.desktop_capture)>>
        m3 == <<Call("minimal.all_windows", os.all_windows)>>
    IN IF os.main_display THEN Filter("main_display", m1)
       ELSE IF os.desktop_capture THEN Filter("desktop_capture", m1 \o m2)
       ELSE IF os.all_windows THEN Filter("all_windows", m1 \o m2 \o m3)
       ELSE NoFilter("null", m1 \o m2 \o m3)

\* bindings.rs ScreenCaptureKitHelpers::create_display_content_filter /
\* create_window_content_filter with non-null content: the filter made from
\* the content, else the main display filter (display) or the desktop capture
\* filter (window)
helper_content_filter(what, os) ==
    LET fallback == IF what = "display" THEN "main_display" ELSE "desktop_capture"
        m1 == <<Call("from_content", os.from_content)>>
        m2 == <<Call(fallback, os[fallback])>>
    IN IF os.from_content THEN Filter(what, m1)
       ELSE IF os[fallback] THEN Filter(fallback, m1 \o m2)
       ELSE NoFilter("null", m1 \o m2)

\* content.rs find_display_by_id / find_window_by_id
find_by_id(content, what, id) ==
    LET entries == IF what = "display" THEN content.displays ELSE content.windows
    IN \E i \in 1..Len(entries) : entries[i].id = id

\* content.rs ShareableContent::create_display_content_filter /
\* create_window_content_filter
create_content_filter(content, what, id, os) ==
    IF ~find_by_id(content, what, id)
    THEN NoFilter(IF what = "display" THEN "Display ID not found"
                  ELSE "Window ID not found", <<>>)
    ELSE IF IsSome(content.sc_content_ptr)
    THEN LET helper == helper_content_filter(what, os)
             minimal == create_minimal_content_filter(os)
         IN IF IsSome(helper.filter) THEN helper
            ELSE IF IsSome(minimal.filter)
            THEN Filter(Unwrap(minimal.filter), helper.calls \o minimal.calls)
            ELSE NoFilter(IF what = "display"
                          THEN "All content filter creation methods failed"
                          ELSE "All window content filter creation methods failed",
                          helper.calls \o minimal.calls)
    ELSE LET minimal == create_minimal_content_filter(os)
         IN IF IsSome(minimal.filter) THEN minimal
            ELSE NoFilter(IF what = "display"
                          THEN "Failed to create minimal content filter"
                          ELSE "Failed to create minimal window content filter",
                          minimal.calls)

\* What a filter call leaves in result: the request and the outcome
FilterServed(op, what, id, listed, r) ==
    [request |-> [what |-> what, id |-> id, listed |-> listed]]
    @@ Served(op, IF IsSome(r.filter) THEN "Ok" ELSE r.error,
              IF IsSome(r.filter) THEN Unwrap(r.filter) ELSE "", r.calls)

\* filters.rs ContentFilterFactory::create_display_filter / create_window_filter
\* as lib.rs create_real_content_filter_safe calls them: with the content
\* pointer of the catalog, if there is one
FactoryCreateFilter(what, id, os) ==
    /\ mgr.kind = "recorder"
    /\ IsSome(mgr.shareable_content)
    /\ LET content == Unwrap(mgr.shareable_content) IN
       Serve(FilterServed("create_filter", what, id,
                          find_by_id(content, what, id)
                              \/ (IsSome(content.sc_content_ptr) /\ os.listed),
                          create_filter(what, content.sc_content_ptr, id, os)))

\* content.rs create_display_content_filter / create_window_content_filter
ContentCreateFilter(what, id, os) ==
    /\ mgr.kind = "recorder"
    /\ IsSome(mgr.shareable_content)
    /\ LET content == Unwrap(mgr.shareable_content) IN
       Serve(FilterServed("create_content_filter", what, id,
                          find_by_id(content, what, id),
                          create_content_filter(content, what, id, os)))

\* ------------------------------------------------------------ stream construction
\* The answers of the four construction patterns: a stream (TRUE) or an
\* error (FALSE)
PatternAnswers == [1..4 -> BOOLEAN]

PatternName(p) ==
    IF p = 1 THEN "create_sc_stream_deferred_delegate"
    ELSE IF p = 2 THEN "create_sc_stream_minimal_delegate"
    ELSE IF p = 3 THEN "create_sc_stream_factory"
    ELSE "create_sc_stream_stepwise"

\* A create_stream that gives up after the third pattern.
create_stream_patterns_without_stepwise(filter_ok, config_ok, answers) ==
    LET try(p) == <<Call(PatternName(p), answers[p])>> IN
    IF ~filter_ok \/ ~config_ok THEN [pattern |-> 0, calls |-> <<>>]
    ELSE IF answers[1] THEN [pattern |-> 1, calls |-> try(1)]
    ELSE IF answers[2] THEN [pattern |-> 2, calls |-> try(1) \o try(2)]
    ELSE IF answers[3] THEN [pattern |-> 3, calls |-> try(1) \o try(2) \o try(3)]
    ELSE [pattern |-> 0, calls |-> try(1) \o try(2) \o try(3)]

\* bindings.rs create_stream: the pattern that gave the stream (0: null is
\* returned) and the patterns tried
create_stream_patterns(filter_ok, config_ok, answers) ==
    LET try(p) == <<Call(PatternName(p), answers[p])>> IN
    IF ~filter_ok \/ ~config_ok THEN [pattern |-> 0, calls |-> <<>>]
    ELSE IF answers[1] THEN [pattern |-> 1, calls |-> try(1)]
    ELSE IF answers[2] THEN [pattern |-> 2, calls |-> try(1) \o try(2)]
    ELSE IF answers[3] THEN [pattern |-> 3, calls |-> try(1) \o try(2) \o try(3)]
    ELSE IF answers[4]
    THEN [pattern |-> 4, calls |-> try(1) \o try(2) \o try(3) \o try(4)]
    ELSE [pattern |-> 0, calls |-> try(1) \o try(2) \o try(3) \o try(4)]

\* The outcome of a start call in which the patterns answer as given
PatternOutcome(answers) ==
    [AllSucceed EXCEPT !.pattern = create_stream_patterns(TRUE, TRUE, answers).pattern]

\* recording.rs RecordingManager::create_stream and recording_manager.rs
\* create_screencapturekit_stream: a null stream becomes an Err
CreateStream(filter_ok, config_ok, answers) ==
    /\ mgr.kind \in {"recording", "recording_manager"}
    /\ LET r == create_stream_patterns(filter_ok, config_ok, answers)
           st == create_stream(filter_ok, config_ok, NSObjectDelegate, r.pattern)
       IN Serve([request |-> [filter_ok |-> filter_ok, config_ok |-> config_ok]]
                @@ Served("create_stream",
                          IF IsSome(st) THEN "Ok"
                          ELSE IF mgr.kind = "recording" THEN "Failed to create stream"
                          ELSE "Failed to create ScreenCaptureKit stream",
                          "", r.calls))

\* ------------------------------------------------------------ the specification
ServiceKinds == {"recorder", "recording", "recording_manager"}

ServiceInit ==
    /\ mgr \in {NewManager(k) : k \in ServiceKinds}
    /\ streams = <<>>
    /\ delegates = <<>>
    /\ bridges = <<>>
    /\ encoders = <<>>
    /\ outputs = <<>>
    /\ result = NoResult
    /\ quiet = TRUE

ServiceNext ==
    \/ \E os \in PermissionAnswers : CheckPermission(os)
    \/ \E os \in PermissionAnswers : CheckScreenRecordingPermission(os)
    \/ \E os \in PermissionAnswers : EnsurePermission(os)
    \/ \E os \in PermissionAnswers : EnsureAllPermissions(os)
    \/ \E os \in PermissionAnswers, env \in {AllSucceed, [AllSucceed EXCEPT !.content = FALSE]} :
           RecInitializeServed(os, env)
    \/ \E how \in {"new_with_real_data", "new_with_timeout"} : GetAvailableScreens(how)
    \/ \E what \in {"display", "window"}, id \in RequestedIds, os \in FactoryAnswers :
           FactoryCreateFilter(what, id, os)
    \/ \E what \in {"display", "window"}, id \in RequestedIds, os \in HelperAnswers :
           ContentCreateFilter(what, id, os)
    \/ \E f \in BOOLEAN, c \in BOOLEAN, answers \in PatternAnswers : CreateStream(f, c, answers)
    \/ \E env \in {AllSucceed, [AllSucceed EXCEPT !.content = FALSE]} : RMInitialize(env)
    \/ \E config \in ValidConfigs, answers \in PatternAnswers :
           RecStartRecording(config, PatternOutcome(answers))
    \/ \E config \in ValidConfigs, answers \in PatternAnswers :
           RMStartRecording(config, PatternOutcome(answers))

ServiceSpec == ServiceInit /\ [][ServiceNext]_vars

\* =========================================================================
\* Properties
\* =========================================================================

\* A step is a control-thread call exactly when it leaves quiet' true; the
\* call it made is result'.op.
StartCall == quiet' /\ result'.op = "start"
StopCall == quiet' /\ result'.op = "stop"

AlreadyRecordingError == {"Already recording"}
NotRecordingError ==
    {"Not currently recording", "No active recording to stop",
     "No active recording session"}

HeapUnchanged ==
    /\ streams' = streams
    /\ delegates' = delegates
    /\ bridges' = bridges
    /\ encoders' = encoders
    /\ outputs' = outputs

\* C1: in recording.rs, a stop_recording that comes right after a
\* start_recording which returned Ok returns Ok with the path of the
\* configuration that was started (not empty), and leaves the manager idle:
\* is_recording false and no stream, delegate, bridge or stream output held.
C1_StartThenStop ==
    (mgr.kind = "recording" /\ result.op = "stop" /\ result.follows_start /\ quiet)
        => /\ result.status = "Ok"
           /\ result.value # ""
           /\ result.value = result.path
           /\ ~mgr.is_recording
           /\ IsNone(mgr.stream)
           /\ IsNone(mgr.delegate)
           /\ IsNone(mgr.delegate_bridge)
           /\ IsNone(mgr.stream_output)

C1_Witness ==
    /\ mgr.kind = "recording"
    /\ result.op = "stop"
    /\ result.follows_start
    /\ quiet
    /\ result.value = "/tmp/out.mov"

\* C2: a start_recording made while the manager is recording fails with the
\* already-recording error whatever configuration is passed, and creates no
\* further stream, delegate or encoder.
C2_SecondStartRejected ==
    [][ (StartCall /\ mgr.is_recording)
            => /\ result'.status \in AlreadyRecordingError
               /\ Len(streams') = Len(streams)
               /\ Len(delegates') = Len(delegates)
               /\ Len(encoders') = Len(encoders) ]_vars

\* C3: a stop_recording made while the manager is not recording returns the
\* not-recording error of its manager and never a path.
C3_StopWhenIdleRejected ==
    [][ (StopCall /\ ~mgr.is_recording)
            => /\ result'.status \in NotRecordingError
               /\ result'.value = "" ]_vars

C3_Witness ==
    /\ result.op = "stop"
    /\ result.status \in NotRecordingError
    /\ quiet
    /\ ~mgr.is_recording
    /\ Len(streams) >= 1

\* C4: the manager is recording only if the OS completion handler of the
\* start request reported success: while is_recording is true the stream it
\* holds is neither still waiting for that completion nor failed to start.
C4_RecordingOnlyAfterStartAck ==
    (mgr.is_recording /\ IsSome(mgr.stream))
        => streams[Unwrap(mgr.stream)].state \notin {"starting", "failed"}

\* C5: when stop_recording returns Ok it returns a path, and every encoder
\* sink that was opened is finalized: no encoder's writer is still writing
\* and every StreamOutput was given a writer and finished it.
C5_StopFinalizesSink ==
    (result.op = "stop" /\ result.status = "Ok" /\ quiet)
        => /\ result.value # ""
           /\ \A e \in 1..Len(encoders) : encoders[e].writer = "finished"
           /\ \A o \in 1..Len(outputs) :
                  outputs[o].asset_writer /\ outputs[o].finish_calls >= 1

\* C6: after the OS stopped the stream on its own, the control thread can
\* still complete the teardown: a stop_recording made while the manager holds
\* a stream the OS has ended returns Ok and releases the stream.
C6_TeardownAfterOSStop ==
    [][ (StopCall /\ IsSome(mgr.stream)
            /\ streams[Unwrap(mgr.stream)].state = "ended")
            => /\ result'.status = "Ok"
               /\ IsNone(mgr'.stream) ]_vars

\* C7: a start_recording with an empty output path or with a width, height
\* or fps outside the accepted range is rejected before anything is created:
\* the call fails, the manager is as it was and nothing was allocated.
C7_InvalidConfigRejected ==
    [][ (StartCall /\ ~result'.valid)
            => /\ result'.status # "Ok"
               /\ mgr' = mgr
               /\ HeapUnchanged ]_vars

\* C8: a start_recording rejected as already recording and a stop_recording
\* rejected as not recording leave every field of the manager and every
\* object it holds unchanged (a running session keeps its stream, delegate
\* and encoders).
C8_RejectedCallsChangeNothing ==
    [][ ( \/ StartCall /\ result'.status \in AlreadyRecordingError
          \/ StopCall /\ result'.status \in NotRecordingError )
            => /\ mgr' = mgr
               /\ HeapUnchanged ]_vars

C8_Witness ==
    /\ result.op = "start"
    /\ result.status \in AlreadyRecordingError
    /\ quiet
    /\ mgr.is_recording
    /\ IsSome(mgr.stream)
    /\ streams[Unwrap(mgr.stream)].state = "starting"

\* The errors start_recording returns when a setup step after validation fails.
SetupErrors ==
    {"Failed to create basic content filter",
     "Failed to create stream configuration",
     "Failed to create delegate bridge",
     "Failed to create stream",
     "Failed to create AVAssetWriter",
     "Failed to create ScreenCaptureKit stream",
     "Failed to create stream delegate",
     "Failed to create SCStream"}

\* C9: when start_recording returns a setup error, is_recording is false, no
\* start request was handed to the OS for a stream the manager holds, and the
\* manager retains no encoder whose writer is open and not finalized.
C9_FailedStartRetainsNothing ==
    (result.op = "start" /\ result.status \in SetupErrors /\ quiet)
        => /\ ~mgr.is_recording
           /\ IsSome(mgr.stream) => streams[Unwrap(mgr.stream)].state = "created"
           /\ \A e \in 1..Len(encoders) :
                  (IsSome(mgr.delegate) /\ encoders[e].owner = Unwrap(mgr.delegate))
                      => encoders[e].writer # "writing"

\* The errors that report a null stream handle.
NullStreamErrors ==
    {"Failed to create stream", "Failed to create ScreenCaptureKit stream",
     "Failed to create SCStream"}

\* C10: Error is terminal.  The session is in Error when the last call was a
\* start_recording that got a null stream handle, or when the stream the
\* manager holds failed to start; every start_recording and stop_recording
\* made then is rejected and the manager is not recording afterwards.
C10_ErrorIsTerminal ==
    [][ ( /\ StartCall \/ StopCall
          /\ \/ result.op = "start" /\ result.status \in NullStreamErrors
             \/ IsSome(mgr.stream) /\ streams[Unwrap(mgr.stream)].state = "failed" )
            => /\ result'.status # "Ok"
               /\ ~mgr'.is_recording ]_vars

\* C11: a stop_recording made after a stop_recording that returned Ok is a
\* no-op: it returns Ok with the same output path as the first call and
\* changes no object (no further stop request, no further finalization).
C11_SecondStopIsNoOp ==
    [][ (StopCall /\ result.op = "stop" /\ result.status = "Ok")
            => /\ result'.status = "Ok"
               /\ result'.value = result.value
               /\ HeapUnchanged ]_vars

\* The video frame count stop_recording reports for the session: the
\* StreamOutput statistics (stream_output.rs print_final_stats, called by
\* StreamOutput::stop_recording) in recording.rs and recording_manager.rs,
\* the delegate's count (content.rs lines 701-706) in content.rs.
ReportedVideoFrames ==
    IF mgr.kind = "content"
    THEN (IF IsSome(mgr.delegate) THEN delegates[Unwrap(mgr.delegate)].frame_count ELSE 0)
    ELSE (IF IsSome(mgr.stream_output)
          THEN outputs[Unwrap(mgr.stream_output)].video_frame_count ELSE 0)

\* The video samples the dispatcher handed over for the manager's stream:
\* the count kept by the delegate the bridge of the stream calls into.
DispatchedVideoSamples ==
    LET s == Unwrap(mgr.stream) IN
    IF CallbackTarget(s) # 0 THEN delegates[CallbackTarget(s)].frame_count ELSE 0

\* C12: when stop_recording is called on a recording session to which the
\* dispatcher delivered k video samples, it returns the output path given in
\* the configuration and the video frame count it reports is k.
C12_StopReportsPathAndFrames ==
    [][ (StopCall /\ result'.status = "Ok" /\ mgr.is_recording /\ IsSome(mgr.stream))
            => /\ result'.value = Unwrap(mgr.output_path)
               /\ ReportedVideoFrames = DispatchedVideoSamples ]_vars

\* C17: the writer of a StreamOutput is asked to finish writing only after
\* its writing session was started (finalizing a sink that never got a
\* sample leaves a valid container).
C17_FinishOnlyAfterStart ==
    [][ \A o \in 1..Len(outputs) :
            outputs'[o].finish_calls > outputs[o].finish_calls
                => outputs[o].recording_started ]_vars

\* C20: a delegate whose audio encoder failed to initialize reports an audio
\* frame count of 0 however many audio samples the OS delivers.
C20_NoAudioEncoderNoAudioFrames ==
    \A d \in 1..Len(delegates) :
        (~delegates[d].dropped /\ IsNone(delegates[d].audio_encoder))
            => delegates[d].audio_frame_count = 0


\* -------------------------------------------------------------------------
\* Properties of the sinks (checked in SinkSpec)
\* -------------------------------------------------------------------------
\* The step hands a sample of the given type to the sink.
SampleStep == result'.op \in {"video", "audio"}
LastSample == Unwrap(streams[1].sample)
CMTimeLess(a, b) == a.value * b.timescale < b.value * a.timescale

\* The video frame counter of the session's sink
SinkVideoCount ==
    IF mgr.kind = "recording" THEN delegates[1].frame_count
    ELSE outputs[1].video_frame_count

\* C13 (as stated): the video frame counter is never decreased and grows by
\* exactly one with every video sample dispatched to the sink.
C13_CounterCountsEveryDispatchedSample ==
    [][ /\ SinkVideoCount' >= SinkVideoCount
        /\ result'.op = "video" => SinkVideoCount' = SinkVideoCount + 1 ]_vars

\* C13 (amended): the video frame counter is never decreased; it grows by
\* exactly one with every video sample the sink's handler returns Ok for, and
\* is left as it is by a video sample rejected because the writer did not
\* start, and by every other step.
C13_CounterCountsEveryAcceptedSample ==
    [][ /\ SinkVideoCount' >= SinkVideoCount
        /\ (result'.op = "video" /\ result'.status = "Ok")
               => SinkVideoCount' = SinkVideoCount + 1
        /\ (result'.op # "video" \/ result'.status # "Ok")
               => SinkVideoCount' = SinkVideoCount ]_vars

C13_Witness ==
    /\ mgr.kind = "recording_manager"
    /\ result.op = "video" /\ result.status = "Ok"
    /\ ~LastSample.ready
    /\ outputs[1].video_frame_count = 2

AllAtOrAfter(times, start) ==
    \A i \in 1..Len(times) : ~CMTimeLess(times[i], start)

\* C14: every presentation time appended to a track of the sink is at or
\* after the time the sink's session was started at.
C14_NoSampleBeforeSessionStart ==
    IF mgr.kind = "recording"
    THEN \A e \in 1..Len(encoders) :
             encoders[e].appended # <<>>
                 => /\ IsSome(encoders[e].session_start)
                    /\ AllAtOrAfter(encoders[e].appended,
                                    Unwrap(encoders[e].session_start))
    ELSE (outputs[1].video_appended \o outputs[1].audio_appended) # <<>>
             => /\ IsSome(outputs[1].start_time)
                /\ AllAtOrAfter(outputs[1].video_appended \o outputs[1].audio_appended,
                                Unwrap(outputs[1].start_time))

\* The session start times of the tracks of the sink
TrackAnchors ==
    IF mgr.kind = "recording"
    THEN {encoders[e].session_start : e \in 1..Len(encoders)}
    ELSE {outputs[1].start_time}

\* The tracks that still take samples
LiveTrackAnchors ==
    IF mgr.kind = "recording"
    THEN {encoders[e].session_start :
              e \in {x \in 1..Len(encoders) : encoders[x].is_recording}}
    ELSE {outputs[1].start_time}

\* The step hands the sink a sample it does not reject or ignore.
AcceptedSampleStep ==
    /\ SampleStep
    /\ result'.status = "Ok"
    /\ mgr.kind = "recording_manager" /\ result'.op = "audio"
           => outputs[1].capture_audio

\* C15: the session start time of every track of the sink is unset while no
\* sample was delivered, is set by the first delivered sample to that sample's
\* presentation time, never changes afterwards, and is the same for all the
\* tracks of the sink.
C15_SessionStartSetOnceFromFirstSample ==
    [][ /\ IsNone(streams[1].sample) => TrackAnchors \subseteq {None}
        /\ (AcceptedSampleStep /\ IsNone(streams[1].sample))
               => LiveTrackAnchors' \subseteq {Some(LastSample'.pts)}
        /\ \A a \in TrackAnchors : IsSome(a) => TrackAnchors' = {a} ]_vars

\* C16: a finalize call on a sink that was finalized before returns the
\* sink's path and finishes nothing again.
C16_FinalizeIsIdempotent ==
    [][ /\ (result'.op = "finalize_output" /\ outputs[1].finish_calls > 0)
               => /\ result'.value = outputs[1].output_path
                  /\ outputs'[1].finish_calls = outputs[1].finish_calls
        /\ \A e \in 1..Len(encoders) :
               ( /\ result'.op = (IF encoders[e].kind = "video" THEN "finalize_video"
                                  ELSE "finalize_audio")
                 /\ encoders[e].finish_calls > 0 )
                   => /\ result'.value = encoders[e].output_url
                      /\ encoders'[e] = encoders[e] ]_vars

\* The counts of encoded samples the sinks keep
EncodedCounts ==
    IF mgr.kind = "recording"
    THEN [e \in 1..Len(encoders) |-> encoders[e].frame_count]
    ELSE <<outputs[1].video_frame_count, outputs[1].audio_sample_count>>

AppendedTimes ==
    IF mgr.kind = "recording"
    THEN [e \in 1..Len(encoders) |-> encoders[e].appended]
    ELSE <<outputs[1].video_appended, outputs[1].audio_appended>>

\* The writer of the sink is started, or starts with the sample of the step.
WriterStarts ==
    mgr.kind = "recording_manager"
        => (outputs[1].recording_started \/ LastSample'.start_ok)

\* C18: a sample that meets a track which is not ready for more data is not
\* written, the handler returns normally, and the sample is not counted as an
\* encoded sample.
C18_NotReadySampleIsDropped ==
    [][ (SampleStep /\ WriterStarts /\ ~LastSample'.ready)
            => /\ result'.status = "Ok"
               /\ AppendedTimes' = AppendedTimes
               /\ EncodedCounts' = EncodedCounts ]_vars

SinksRecording ==
    IF mgr.kind = "recording"
    THEN [e \in 1..Len(encoders) |-> encoders[e].is_recording]
    ELSE <<outputs[1].is_recording>>

C21_VideoEncoderFailureFailsStart ==
    [][ ( /\ StartCall
          /\ Len(delegates') > Len(delegates)
          /\ ~delegates'[Len(delegates')].dropped
          /\ IsNone(delegates'[Len(delegates')].video_encoder) )
            => /\ result'.status # "Ok"
               /\ ~mgr'.is_recording
               /\ Len(streams') = Len(streams) ]_vars


\* C22: a delegate has an audio encoder only if the session's configuration
\* asked for audio, the audio encoder writes into the file at the session's
\* output path, and without requested audio no audio sample is counted.
C22_AudioTrackOnlyWhenRequested ==
    \A d \in 1..Len(delegates) :
        ~delegates[d].dropped =>
            /\ IsSome(delegates[d].audio_encoder)
                   => encoders[Unwrap(delegates[d].audio_encoder)].output_url
                          = delegates[d].output_path
            /\ ( /\ mgr.kind = "recording"
                 /\ mgr.delegate = Some(d)
                 /\ IsSome(mgr.recording_config)
                 /\ ~Unwrap(mgr.recording_config).capture_audio )
                   => /\ IsNone(delegates[d].audio_encoder)
                      /\ delegates[d].audio_frame_count = 0


\* -------------------------------------------------------------------------
\* Properties of the services (checked in ServiceSpec)
\* -------------------------------------------------------------------------
FilterCall == result'.op \in {"create_filter", "create_content_filter"}

\* C23: a filter requested for a display or window id that is listed neither
\* in the catalog nor in the live content is not created: the call returns an
\* error, and no stream, delegate or encoder comes into being.
C23_AbsentSourceFailsFilterCreation ==
    [][ (FilterCall /\ ~result'.request.listed)
            => /\ result'.status # "Ok"
               /\ UNCHANGED <<streams, delegates, encoders>> ]_vars


\* The calls of the last service call that went to fn, as indices of its log
CallsTo(fn) == {i \in 1..Len(result.calls) : result.calls[i].fn = fn}
Preflight == "CGPreflightScreenCaptureAccess"
Request == "CGRequestScreenCaptureAccess"

PermissionDeniedErrors ==
    {PermissionRequired,
     "Screen recording permission is required. Please enable it in System Preferences > Security & Privacy > Privacy > Screen Recording"}
IncompatibleVersion ==
    "macOS 10.15 (Catalina) or later is required for ScreenCaptureKit"

\* The shape of a call that ensures the permission, from its call `first` on:
\* the check comes first, the request is made at most once and only after a
\* check that said no, Ok is returned exactly when one of them said yes, and
\* every other return is a permission-denied error.
ChecksThenRequests(first) ==
    /\ Len(result.calls) >= first
    /\ result.calls[first].fn = Preflight
    /\ CallsTo(Preflight) = {first}
    /\ CallsTo(Request) \subseteq {first + 1}
    /\ CallsTo(Request) # {} => ~result.calls[first].ret
    /\ result.status = "Ok"
           <=> \E i \in CallsTo(Preflight) \cup CallsTo(Request) : result.calls[i].ret
    /\ result.status # "Ok" => result.status \in PermissionDeniedErrors

\* C24 as stated: every call of ensure_permission and of ensure_all_permissions
\* makes the permission check first, requests at most once and only after a
\* check that was not granted, returns Ok exactly when the check or the
\* request granted, and otherwise fails with a permission-denied error.
C24_EnsureChecksThenRequests ==
    result.op \in {"ensure_permission", "ensure_all_permissions"}
        => ChecksThenRequests(IF result.op = "ensure_permission" THEN 1 ELSE 2)

\* C24, amended: ensure_permission behaves as stated; ensure_all_permissions
\* tests the macOS version before anything else, and on an incompatible
\* version returns a version error without having checked or requested the
\* permission; on a compatible one it behaves as stated from there on.
C24_EnsureChecksThenRequestsOnceVersionPassed ==
    /\ result.op = "ensure_permission" => ChecksThenRequests(1)
    /\ result.op = "ensure_all_permissions"
           => /\ result.calls[1].fn = "sw_vers"
              /\ IF result.calls[1].ret THEN ChecksThenRequests(2)
                 ELSE /\ Len(result.calls) = 1
                      /\ result.status = IncompatibleVersion

C24_Witness ==
    /\ result.op = "ensure_permission"
    /\ Len(result.calls) = 2
    /\ ~result.calls[1].ret
    /\ result.calls[2].fn = Request
    /\ result.calls[2].ret
    /\ result.status = "Ok"


\* C25: the permission-check operations (check_permission,
\* check_screen_recording_permission, and RecordingManager::initialize, which
\* uses the latter) only query the authorization status: none of them makes
\* the OS request that may prompt the user.
C25_CheckNeverRequests ==
    result.op \in {"check_permission", "check_screen_recording_permission", "initialize"}
        => CallsTo(Request) = {}


EnumerationOps == {"new_with_real_data", "new_with_timeout"}

\* The size a window dictionary stands for, and the policy of the catalog
DictWidth(dict) ==
    IF IsSome(dict.bounds) THEN Unwrap(dict.bounds).Width ELSE DefaultWindowWidth
DictHeight(dict) ==
    IF IsSome(dict.bounds) THEN Unwrap(dict.bounds).Height ELSE DefaultWindowHeight
KeptByPolicy(title, width, height) ==
    title # "" /\ width >= MinWindowSize /\ height >= MinWindowSize

\* The window list the OS answered the last enumeration with
AnsweredWindowList == result.calls[Len(result.calls)].ret

\* C26: a window is in the exported source list if and only if its title is
\* not empty and its width and height are both at least 100, at both stages:
\* a dictionary of the OS window list enters the catalog exactly under that
\* condition, and a window of the catalog is exported exactly under it.
C26_WindowKeptIffAtLeastMinimum ==
    (result.op \in EnumerationOps /\ IsSome(mgr.shareable_content)) =>
        LET catalog == Unwrap(mgr.shareable_content).windows
            sources == result.value
        IN /\ result.calls # <<>> =>
                  \A i \in 1..Len(AnsweredWindowList.windows) :
                      LET dict == AnsweredWindowList.windows[i] IN
                      KeptByPolicy(window_title(dict), DictWidth(dict), DictHeight(dict))
                          <=> \E j \in 1..Len(catalog) :
                                  /\ catalog[j].title = window_title(dict)
                                  /\ catalog[j].width = DictWidth(dict)
                                  /\ catalog[j].height = DictHeight(dict)
                                  /\ catalog[j].id \in {7, i - 1}
           /\ \A j \in 1..Len(catalog) :
                  KeptByPolicy(catalog[j].title, catalog[j].width, catalog[j].height)
                      <=> \E k \in 1..Len(sources) : sources[k] = WindowSource(catalog[j])


\* The catalog snapshot the recorder holds
Snapshot == Unwrap(mgr.shareable_content)

\* C27: every catalog snapshot taken by an enumeration (new_with_real_data,
\* new_with_timeout) holds at least one display or window, whichever of the
\* providers failed: the capture service, the display list, the window list.
C27_SnapshotIsNeverEmpty ==
    (mgr.kind = "recorder" /\ IsSome(mgr.shareable_content))
        => Len(Snapshot.displays) + Len(Snapshot.windows) >= 1

\* A snapshot was just taken while every provider failed: the capture service
\* was unavailable, the display list query returned an error, and the window
\* list held no valid window.
C27_Witness ==
    /\ result.op = "new_with_real_data"
    /\ Len(result.calls) = 3
    /\ ~result.calls[1].ret
    /\ ~result.calls[2].ret.ok
    /\ ~result.calls[3].ret.null
    /\ Len(result.calls[3].ret.windows) = 1
    /\ IsSome(mgr.shareable_content)
    /\ Snapshot.displays = <<>>
    /\ Snapshot.windows = get_fallback_window_info


\* The tiers of a filter call, in the order the code goes through them: the
\* exact filter from the live content and its fallback object (only with live
\* content), then the generic filters.
TierOrder(op, what, live) ==
    IF op = "create_filter"
    THEN (IF live THEN <<"new_for">> ELSE <<>>) \o <<"new_basic">>
    ELSE (IF live
          THEN <<"from_content",
                 IF what = "display" THEN "main_display" ELSE "desktop_capture">>
          ELSE <<>>)
         \o <<"minimal.main_display", "minimal.desktop_capture", "minimal.all_windows">>

\* The filter a tier gives when it succeeds
TierFilter(fn, what) ==
    IF fn \in {"new_for", "from_content"} THEN what
    ELSE IF fn = "new_basic" THEN "Desktop"
    ELSE IF fn = "minimal.main_display" THEN "main_display"
    ELSE IF fn = "minimal.desktop_capture" THEN "desktop_capture"
    ELSE IF fn = "minimal.all_windows" THEN "all_windows"
    ELSE fn

FilterOps == {"create_filter", "create_content_filter"}
FilterTierOrder ==
    TierOrder(result.op, result.request.what, IsSome(Snapshot.sc_content_ptr))
AllTiersFailed ==
    /\ Len(result.calls) = Len(FilterTierOrder)
    /\ \A i \in 1..Len(result.calls) : ~result.calls[i].ret

\* The tiers were gone through in order, each only after every earlier one
\* failed, and a filter returned is that of the first tier that succeeded.
FirstSuccessfulTier ==
    /\ Len(result.calls) <= Len(FilterTierOrder)
    /\ \A i \in 1..Len(result.calls) :
           /\ result.calls[i].fn = FilterTierOrder[i]
           /\ i < Len(result.calls) => ~result.calls[i].ret
    /\ result.status = "Ok"
           <=> (result.calls # <<>> /\ result.calls[Len(result.calls)].ret)
    /\ result.status = "Ok"
           => result.value = TierFilter(result.calls[Len(result.calls)].fn,
                                        result.request.what)

\* C29 as stated: filter creation goes through its tiers in a fixed order, a
\* tier is attempted only if every earlier one failed, the result is the
\* filter of the first tier that succeeded, and an error is returned exactly
\* when all tiers were attempted and failed.
C29_ErrorExactlyWhenAllTiersFailed ==
    result.op \in FilterOps
        => /\ FirstSuccessfulTier
           /\ result.status # "Ok" <=> AllTiersFailed

NotFoundErrors == {"Display ID not found", "Window ID not found"}

\* C29, amended: as stated, except that the filter creation of the catalog
\* (content.rs) returns a not-found error without attempting any tier when
\* the requested id is not in the catalog; every other error is returned
\* exactly when all tiers were attempted and failed.
C29_ErrorWhenNotListedOrAllTiersFailed ==
    result.op \in FilterOps
        => /\ FirstSuccessfulTier
           /\ result.status # "Ok"
                  <=> \/ AllTiersFailed
                      \/ /\ result.op = "create_content_filter"
                         /\ ~result.request.listed
                         /\ result.calls = <<>>
                         /\ result.status \in NotFoundErrors

\* A window filter was asked of a catalog with live content; the exact
\* filter, its fallback and the first two generic filters failed, and the
\* last generic filter was returned.
C29_Witness ==
    /\ result.op = "create_content_filter"
    /\ result.request.what = "window"
    /\ IsSome(Snapshot.sc_content_ptr)
    /\ Len(result.calls) = 5
    /\ result.status = "Ok"
    /\ result.value = "all_windows"


StreamCreationErrors ==
    {"Failed to create stream", "Failed to create ScreenCaptureKit stream"}
AllPatternsFail == [p \in 1..4 |-> FALSE]

\* What create_stream returned and the patterns it went through: none with a
\* null filter or configuration; otherwise patterns 1, 2, ... in order, each
\* only after the one before failed, a stream exactly when the last one
\* tried succeeded, and null only after all four were tried.
PatternsTriedInOrder ==
    result.op = "create_stream" =>
        IF ~result.request.filter_ok \/ ~result.request.config_ok
        THEN /\ result.calls = <<>>
             /\ result.status \in StreamCreationErrors
        ELSE /\ Len(result.calls) \in 1..4
             /\ \A i \in 1..Len(result.calls) :
                    /\ result.calls[i].fn = PatternName(i)
                    /\ i < Len(result.calls) => ~result.calls[i].ret
             /\ result.status = "Ok" <=> result.calls[Len(result.calls)].ret
             /\ result.status # "Ok"
                    => /\ Len(result.calls) = 4
                       /\ result.status \in StreamCreationErrors

\* A start call that gets as far as creating the stream (the manager is not
\* recording, and is initialized where start requires that), in which all
\* four patterns fail
StartWithAllPatternsFailing ==
    /\ StartCall
    /\ ~mgr.is_recording
    /\ mgr.kind = "recording_manager" => IsSome(mgr.shareable_content)
    /\ \E config \in ValidConfigs :
           \/ RecStartRecording(config, PatternOutcome(AllPatternsFail))
           \/ RMStartRecording(config, PatternOutcome(AllPatternsFail))

C28_ConstructedBridgeIsValid ==
    \A b \in 1..Len(bridges) :
        ~bridges[b].released
            => /\ is_valid(bridges[b])
               /\ as_objc_delegate(bridges[b]) # NULL

\* A start call just constructed a bridge, which the manager holds, after an
\* earlier bridge was dropped
C28_Witness ==
    /\ result.op = "start"
    /\ Len(bridges) = 2
    /\ bridges[1].released
    /\ ~bridges[2].released
    /\ mgr.delegate_bridge = Some(2)


\* -------------------------------------------------------------------------
\* Properties of object lifetimes and of repeated sessions (checked in Spec)
\* -------------------------------------------------------------------------
\* A stream the OS may still call back from: created, and its stop (or its
\* end) not yet completed
StreamInFlight(s) == streams[s].state \in {"created", "starting", "running", "stopping"}

\* C31: from the creation of a stream until the OS has completed its stop, the
\* bridge the stream was given as its delegate and the delegate behind that
\* bridge are alive and held by the manager, so that no callback of the
\* stream can run against a released bridge or a dropped delegate.
C31_BridgeAndDelegateOutliveStream ==
    \A s \in 1..Len(streams) :
        (StreamInFlight(s) /\ streams[s].delegate >= 1) =>
            LET b == streams[s].delegate IN
            /\ ~bridges[b].released
            /\ ~delegates[bridges[b].delegate].dropped
            /\ DelegateOwned(mgr, bridges, bridges[b].delegate)


\* -------------------------------------------------------------------------
\* Properties of written presentation times and of late samples (checked in
\* SinkSpec)
\* -------------------------------------------------------------------------
StrictlyIncreasing(times) ==
    \A i \in 1..(Len(times) - 1) : CMTimeLess(times[i], times[i + 1])

\* The video tracks of the sink: the presentation times written to each, in
\* the order they were written, with the session start of the track
VideoTracks ==
    IF mgr.kind = "recording"
    THEN {[written |-> encoders[e].appended, start |-> encoders[e].session_start] :
              e \in {x \in 1..Len(encoders) : encoders[x].kind = "video"}}
    ELSE {[written |-> outputs[1].video_appended, start |-> outputs[1].start_time]}

\* C32: the presentation times of the video frames written one after the
\* other are strictly increasing and none is earlier than the session start,
\* whatever the presentation times and timescales of the samples and whichever
\* samples were dropped in between because the writer was not ready.
C32_WrittenVideoTimesStrictlyIncrease ==
    \A track \in VideoTracks :
        /\ StrictlyIncreasing(track.written)
        /\ track.written # <<>>
               => /\ IsSome(track.start)
                  /\ AllAtOrAfter(track.written, Unwrap(track.start))


\* Properties of the path from a delivered sample to the finalized sink
\* (checked in Spec)

\* The sink a callback of stream s hands its samples to: the encoders of the
\* RealStreamDelegate behind the stream's bridge (id 0: the stream's delegate
\* forwards nowhere).
SinkReceivingSamples(s) ==
    [type |-> "delegate_encoders", id |-> CallbackTarget(s)]

\* The sink stop_recording finalizes: recording.rs 170-179 and
\* recording_manager.rs stop the StreamOutput, content.rs 730-736 calls the
\* delegate's handle_stream_stopped.
SinkFinalizedByStop ==
    IF mgr.kind = "content"
    THEN [type |-> "delegate_encoders",
          id |-> IF IsSome(mgr.delegate) THEN Unwrap(mgr.delegate) ELSE 0]
    ELSE [type |-> "stream_output",
          id |-> IF IsSome(mgr.stream_output) THEN Unwrap(mgr.stream_output) ELSE 0]

\* C33: right after start_recording returned Ok, the manager's stream has a
\* delegate that forwards to a sink, and that sink is the very object a
\* stop_recording would finalize.
C33_DispatchedSinkIsFinalizedSink ==
    (result.op = "start" /\ result.status = "Ok" /\ quiet)
        => /\ IsSome(mgr.stream)
           /\ SinkReceivingSamples(Unwrap(mgr.stream)).id # 0
           /\ SinkReceivingSamples(Unwrap(mgr.stream)) = SinkFinalizedByStop

\* Properties of samples that arrive after their sink was finalized
\* (checked in SinkSpec)

\* A step in which a sample handler ran: only the handlers leave "video" or
\* "audio" as the operation of the result.
SampleHandled == result'.op \in {"video", "audio"}

\* stream_output.rs ensure_recording_started, lines 265-294: the handler
\* called startWriting on the writer (and it refused).
StartWritingRefused == result'.status = "Failed to start writing session"

\* C34: a sample handled after its sink was finalized leaves the sink's
\* written samples and its session start as they were and opens no writing
\* session: for an encoder nothing is appended and start_time stays, for a
\* StreamOutput nothing is appended, start_time and recording_started stay
\* and startWriting is not called on the finished writer.
C34_LateSampleLeavesFinalizedSinkAlone ==
    [][ SampleHandled =>
          /\ \A e \in 1..Len(encoders) :
                 encoders[e].finish_calls > 0 =>
                     /\ encoders'[e].appended = encoders[e].appended
                     /\ encoders'[e].session_start = encoders[e].session_start
                     /\ encoders'[e].start_time = encoders[e].start_time
          /\ mgr.kind = "recording_manager" =>
                 \A o \in 1..Len(outputs) :
                     outputs[o].finish_calls > 0 =>
                         /\ outputs'[o].video_appended = outputs[o].video_appended
                         /\ outputs'[o].audio_appended = outputs[o].audio_appended
                         /\ outputs'[o].start_time = outputs[o].start_time
                         /\ outputs'[o].recording_started = outputs[o].recording_started
                         /\ ~StartWritingRefused
      ]_vars

\* =========================================================================
\* The delegate under its threads
\*
\* A fourth specification: one session of content.rs RealStreamManager that
\* has been started, and the threads that run code of its RealStreamDelegate
\* at the same time: the OS queue of video samples, the OS queue of audio
\* samples, the OS thread of the stream-stopped callback and the control
\* thread with its queries and its stop_recording.  A step is one
\* acquisition or release of one of the delegate's mutexes, or the work
\* done between them.  The threads and the mutexes are kept in result.
\* =========================================================================
MaxThreadCalls == 1   \* calls each thread makes
FpsInterval == 30     \* delegate.rs line 114: the fps is computed every 30 frames

Threads == {"video", "audio", "stopped", "control"}
Mutexes ==
    {"frame_count", "audio_frame_count", "last_frame_time", "fps_counter",
     "video_encoder", "audio_encoder", "is_recording"}
Free == "free"

\* The instructions of a thread: lock or unlock one mutex, or do a piece of
\* work; work whose test fails skips the instructions of the branch it guards.
Lock(m) == [kind |-> "lock", arg |-> m, skip |-> 0]
Unlock(m) == [kind |-> "unlock", arg |-> m, skip |-> 0]
Do(work) == [kind |-> "do", arg |-> work, skip |-> 0]
DoOrSkip(work, n) == [kind |-> "do", arg |-> work, skip |-> n]

\* delegate.rs get_frame_count, get_audio_frame_count, get_current_fps,
\* is_recording: one mutex each, released when the statement ends
get_frame_count == <<Lock("frame_count"), Do("read"), Unlock("frame_count")>>
get_audio_frame_count ==
    <<Lock("audio_frame_count"), Do("read"), Unlock("audio_frame_count")>>
get_current_fps == <<Lock("fps_counter"), Do("read"), Unlock("fps_counter")>>
delegate_is_recording == <<Lock("is_recording"), Do("read"), Unlock("is_recording")>>

\* content.rs get_stats, lines 792-797: the three counters one after another
get_stats == get_frame_count \o get_audio_frame_count \o get_current_fps

\* delegate.rs process_video_sample_buffer, lines 146-177: without an encoder
\* frame_count is read; with one the encoder is locked, the frame encoded and,
\* when that returned Ok, frame_count read while the encoder is still locked.
process_video_sample_buffer(dl) ==
    IF IsNone(dl.video_encoder)
    THEN <<Lock("frame_count"), Do("read"), Unlock("frame_count")>>
    ELSE <<Lock("video_encoder"), DoOrSkip("encode_frame", 3),
           Lock("frame_count"), Do("read"), Unlock("frame_count"),
           Unlock("video_encoder")>>

\* A handle_video_sample_buffer whose guard of frame_count lives until the
\* function returns, so that the frame is processed under it.
handle_video_sample_buffer_steps_holding_count(dl) ==
    <<Lock("frame_count"), DoOrSkip("count_frame", 5),
      Lock("last_frame_time"), Lock("fps_counter"), Do("update_fps"),
      Unlock("fps_counter"), Unlock("last_frame_time"), Do("read")>>
    \o process_video_sample_buffer(dl)
    \o <<Unlock("frame_count")>>

\* delegate.rs handle_video_sample_buffer, lines 110-130
handle_video_sample_buffer_steps(dl) ==
    <<Lock("frame_count"), DoOrSkip("count_frame", 5),
      Lock("last_frame_time"), Lock("fps_counter"), Do("update_fps"),
      Unlock("fps_counter"), Unlock("last_frame_time"),
      Unlock("frame_count")>>
    \o process_video_sample_buffer(dl)

\* delegate.rs process_audio_sample_buffer
process_audio_sample_buffer(dl) ==
    IF IsSome(dl.audio_encoder)
    THEN <<Lock("audio_encoder"), Do("encode_audio"), Unlock("audio_encoder")>>
    ELSE <<>>

\* delegate.rs handle_audio_sample_buffer
handle_audio_sample_buffer_steps(dl) ==
    <<Lock("audio_frame_count"), Do("count_audio"), Unlock("audio_frame_count")>>
    \o process_audio_sample_buffer(dl)

\* delegate.rs print_final_stats, lines 228-232
print_final_stats == get_frame_count \o get_audio_frame_count \o get_current_fps

\* delegate.rs handle_stream_stopped, lines 192-225
handle_stream_stopped_steps(dl) ==
    <<Lock("is_recording"), Do("clear_flag"), Unlock("is_recording")>>
    \o (IF IsSome(dl.video_encoder)
        THEN <<Lock("video_encoder"), Do("finalize_video"), Unlock("video_encoder")>>
        ELSE <<>>)
    \o (IF IsSome(dl.audio_encoder)
        THEN <<Lock("audio_encoder"), Do("finalize_audio"), Unlock("audio_encoder")>>
        ELSE <<>>)
    \o print_final_stats

\* content.rs stop_recording, lines 695-750, with a stream and a delegate
RSMStopRecording_steps(dl) ==
    get_stats \o <<Do("request_stop")>> \o handle_stream_stopped_steps(dl)
    \o <<Do("return")>>

\* What the control thread calls
ControlCalls ==
    {"get_frame_count", "get_audio_frame_count", "get_current_fps",
     "is_recording", "get_stats", "stop_recording"}

ControlSteps(call, dl) ==
    IF call = "get_frame_count" THEN get_frame_count
    ELSE IF call = "get_audio_frame_count" THEN get_audio_frame_count
    ELSE IF call = "get_current_fps" THEN get_current_fps
    ELSE IF call = "is_recording" THEN delegate_is_recording
    ELSE IF call = "get_stats" THEN get_stats
    ELSE RSMStopRecording_steps(dl)

\* ------------------------------------------------------------ the threads
IdleThread == [call |-> "idle", todo |-> <<>>, calls |-> 0]

Running(t) == result.threads[t].todo # <<>>
NextStep(t) == Head(result.threads[t].todo)

\* A thread can take its next step unless that step locks a mutex that is held
CanStep(t) ==
    /\ Running(t)
    /\ NextStep(t).kind = "lock" => result.owner[NextStep(t).arg] = Free

DelegateInit ==
    \E config \in {Cfg("/tmp/b.mp4", NoValue, NoValue, NoValue, TRUE)},
       env \in SinkOutcomes, frames \in {0, FpsInterval - 1} :
        /\ mgr = RSMStoreState(NewManager("content"), 1, 1, config)
        /\ streams = <<[delegate |-> 1, state |-> "running"]>>
        /\ delegates = <<[NewDelegate(config.output_path, FALSE, env, 1)
                             EXCEPT !.frame_count = frames]>>
        /\ bridges = <<NewBridge(1, FALSE)>>
        /\ encoders = NewDelegateEncoders(config.output_path, env, 1)
        /\ outputs = <<>>
        /\ result = [threads |-> [t \in Threads |-> IdleThread],
                     owner |-> [m \in Mutexes |-> Free]] @@ NoResult
        /\ quiet = TRUE

\* A thread enters a call
Enter(t, call, steps) ==
    /\ ~Running(t)
    /\ result.threads[t].calls < MaxThreadCalls
    /\ result' = [result EXCEPT !.threads[t] =
                      [call |-> call, todo |-> steps, calls |-> @.calls + 1]]
    /\ quiet' = FALSE

\* objc_bridge_rust.rs video_callback_bridge: the OS hands over a video sample
VideoCallbackBegins ==
    /\ streams[1].state = "running"
    /\ Enter("video", "handle_video_sample_buffer",
             handle_video_sample_buffer_steps(delegates[1]))
    /\ UNCHANGED <<mgr, streams, delegates, bridges, encoders, outputs>>

\* objc_bridge_rust.rs audio_callback_bridge: the OS hands over an audio sample
AudioCallbackBegins ==
    /\ streams[1].state = "running"
    /\ Enter("audio", "handle_audio_sample_buffer",
             handle_audio_sample_buffer_steps(delegates[1]))
    /\ UNCHANGED <<mgr, streams, delegates, bridges, encoders, outputs>>

\* objc_bridge_rust.rs stream_stopped_callback_bridge: the OS ended the stream
StreamStoppedBegins ==
    /\ streams[1].state = "running"
    /\ Enter("stopped", "handle_stream_stopped",
             handle_stream_stopped_steps(delegates[1]))
    /\ streams' = [streams EXCEPT ![1].state = "ended"]
    /\ UNCHANGED <<mgr, delegates, bridges, encoders, outputs>>

\* The control thread calls a query of the delegate or stop_recording
ControlBegins(call) ==
    /\ IsSome(mgr.delegate)
    /\ call = "stop_recording" => IsSome(mgr.stream)
    /\ Enter("control", call, ControlSteps(call, delegates[Unwrap(mgr.delegate)]))
    /\ UNCHANGED <<mgr, streams, delegates, bridges, encoders, outputs>>

\* The work between the locks: what it changes
Work(work, ready, ok) ==
    LET dl == delegates[1] IN
    /\ mgr' = IF work = "clear_flag" THEN stream_stopped_flag(mgr, dl)
              ELSE IF work = "request_stop"
                   THEN [mgr EXCEPT !.is_recording = FALSE, !.stream = None]
              ELSE IF work = "return" THEN [mgr EXCEPT !.delegate = None]
              ELSE mgr
    /\ streams' = IF work = "request_stop" THEN RequestStop(streams, 1) ELSE streams
    /\ delegates' = IF work = "count_frame" THEN handle_video_sample_buffer(delegates, 1)
                    ELSE IF work = "count_audio"
                         THEN handle_audio_sample_buffer(delegates, 1)
                    ELSE IF work = "clear_flag" THEN stream_stopped_delegates(delegates, 1)
                    ELSE delegates
    /\ encoders' = IF work = "encode_frame"
                   THEN video_sample_encoders(encoders, dl, ready, ok)
                   ELSE IF work = "encode_audio"
                        THEN audio_sample_encoders(encoders, dl, ready, ok)
                   ELSE IF work = "finalize_video"
                        THEN [encoders EXCEPT ![Unwrap(dl.video_encoder)] =
                                  finalize_encoding(@)]
                   ELSE IF work = "finalize_audio"
                        THEN [encoders EXCEPT ![Unwrap(dl.audio_encoder)] =
                                  finalize_encoding(@)]
                   ELSE encoders

\* The test of a piece of work that guards a branch
WorkTest(work, ready, ok) ==
    IF work = "count_frame"
    THEN (delegates[1].frame_count + 1) % FpsInterval = 0
    ELSE IF work = "encode_frame"
         THEN encode_status(encoders[Unwrap(delegates[1].video_encoder)],
                            [ready |-> ready, ok |-> ok]) = "Ok"
    ELSE TRUE

\* The answers the native writer can give in the next step of thread t: it is
\* only asked when the step encodes a sample.
NativeAnswers(t) ==
    IF Running(t) /\ NextStep(t).arg \in {"encode_frame", "encode_audio"}
    THEN BOOLEAN ELSE {TRUE}

\* A thread takes its next step; ready and ok are the answers of the native
\* writer when the step encodes a sample.
ThreadStep(t) ==
    /\ CanStep(t)
    /\ \E ready \in NativeAnswers(t), ok \in NativeAnswers(t) :
         LET step == NextStep(t)
             rest == Tail(result.threads[t].todo)
             todo == IF step.kind = "do" /\ ~WorkTest(step.arg, ready, ok)
                     THEN SubSeq(rest, step.skip + 1, Len(rest))
                     ELSE rest
         IN
         /\ result' = [result EXCEPT
                           !.threads[t].todo = todo,
                           !.threads[t].call = IF todo = <<>> THEN "idle" ELSE @,
                           !.owner = IF step.kind = "lock"
                                     THEN [@ EXCEPT ![step.arg] = t]
                                     ELSE IF step.kind = "unlock"
                                          THEN [@ EXCEPT ![step.arg] = Free]
                                     ELSE @]
         /\ IF step.kind = "do" THEN Work(step.arg, ready, ok)
            ELSE UNCHANGED <<mgr, streams, delegates, encoders>>
    /\ quiet' = FALSE
    /\ UNCHANGED <<bridges, outputs>>

DelegateNext ==
    \/ VideoCallbackBegins
    \/ AudioCallbackBegins
    \/ StreamStoppedBegins
    \/ \E call \in ControlCalls : ControlBegins(call)
    \/ \E t \in Threads : ThreadStep(t)

DelegateSpec == DelegateInit /\ [][DelegateNext]_vars

\* Properties of the delegate's threads (checked in DelegateSpec)

\* C35: whatever the order in which the control thread's stop_recording and
\* the OS stream-stopped callback run their steps, no encoder has its inputs
\* marked finished and its writer finished more than once.
C35_FinishStepAtMostOnce ==
    \A e \in 1..Len(encoders) : encoders[e].finish_calls <= 1

\* stop_recording has returned on the control thread and the stream-stopped
\* callback has returned on its own: both finalized the two encoders.
C35_Witness ==
    /\ IsNone(mgr.delegate)
    /\ result.threads["stopped"].calls = 1
    /\ \A t \in Threads : ~Running(t)
    /\ Len(encoders) = 2
    /\ \A e \in 1..Len(encoders) : encoders[e].finish_calls = 1

\* An order of the delegate's mutexes: a thread only locks a mutex that comes
\* after every mutex it holds.
LockRank ==
    [m \in Mutexes |->
        IF m \in {"video_encoder", "audio_encoder", "is_recording"} THEN 1
        ELSE IF m \in {"frame_count", "audio_frame_count"} THEN 2
        ELSE IF m = "last_frame_time" THEN 3
        ELSE 4]

Held(t) == {m \in Mutexes : result.owner[m] = t}
Wants(t) == IF Running(t) /\ NextStep(t).kind = "lock" THEN {NextStep(t).arg} ELSE {}

\* C36: in every state reached by the video callback, the audio callback,
\* the stream-stopped callback and the control thread's calls, some thread
\* that is inside the delegate can take its next step (no deadlock), no
\* thread is about to lock a mutex it holds, and every thread locks the
\* mutexes in one common order (no cyclic acquisition).
C36_NoDeadlockAmongDelegateThreads ==
    /\ (\E t \in Threads : Running(t)) => (\E t \in Threads : CanStep(t))
    /\ \A t \in Threads : Wants(t) \cap Held(t) = {}
    /\ \A t \in Threads : \A w \in Wants(t), h \in Held(t) : LockRank[h] < LockRank[w]

\* The video callback holds frame_count and last_frame_time and waits for
\* fps_counter, which the control thread holds, while the stream-stopped
\* callback is inside the delegate as well.
C36_Witness ==
    /\ Held("video") = {"frame_count", "last_frame_time"}
    /\ Wants("video") = {"fps_counter"}
    /\ result.owner["fps_counter"] = "control"
    /\ Running("stopped")
    /\ Running("audio")

\* Properties of a second session on the same manager (checked in Spec)

\* A session of the manager was stopped: only stop_recording asks the OS to
\* stop a stream.
PreviousSessionStopped ==
    /\ ~mgr.is_recording
    /\ \E s \in 1..Len(streams) : streams[s].state \in {"stopping", "stopped"}

\* start_recording with a valid configuration, every native call succeeding
StartWithAllSucceeding ==
    \E config \in ValidConfigs :
        \/ RecStartRecording(config, AllSucceed)
        \/ RMStartRecording(config, AllSucceed)
        \/ RSMStartRecording(TRUE, config, AllSucceed)

\* C37: on a manager whose session was stopped, a start_recording with a
\* valid configuration whose native calls succeed returns Ok, and the
\* stream, delegate, bridge and sink it leaves in the manager are objects
\* made by this call, with frame and audio counters at 0.
C37_SecondSessionStartsFresh ==
    [][ (PreviousSessionStopped /\ StartWithAllSucceeding) =>
          /\ result'.status = "Ok"
          /\ mgr'.is_recording
          /\ mgr'.stream = Some(Len(streams) + 1)
          /\ streams'[Len(streams) + 1].state = "starting"
          /\ streams'[Len(streams) + 1].delegate >= 1
                 => streams'[Len(streams) + 1].delegate > Len(bridges)
          /\ mgr.kind # "recording_manager" => IsSome(mgr'.delegate)
          /\ mgr.kind # "content" => IsSome(mgr'.stream_output)
          /\ IsSome(mgr'.delegate) =>
                 LET d == Unwrap(mgr'.delegate) IN
                 /\ d > Len(delegates)
                 /\ delegates'[d].frame_count = 0
                 /\ delegates'[d].audio_frame_count = 0
                 /\ \A e \in 1..Len(encoders') :
                        encoders'[e].owner = d =>
                            /\ e > Len(encoders)
                            /\ encoders'[e].frame_count = 0
                            /\ encoders'[e].finish_calls = 0
          /\ IsSome(mgr'.delegate_bridge) =>
                 /\ Unwrap(mgr'.delegate_bridge) > Len(bridges)
                 /\ bridges'[Unwrap(mgr'.delegate_bridge)].delegate > Len(delegates)
          /\ IsSome(mgr'.stream_output) =>
                 LET o == Unwrap(mgr'.stream_output) IN
                 /\ o > Len(outputs)
                 /\ outputs'[o].video_frame_count = 0
                 /\ outputs'[o].audio_sample_count = 0
                 /\ outputs'[o].finish_calls = 0
      ]_vars

\* The second session has been started: two streams, the first stopping or
\* stopped, the second held by the manager, which is recording again.
C37_Witness ==
    /\ Len(streams) = 2
    /\ streams[1].state \in {"stopping", "stopped"}
    /\ mgr.stream = Some(2)
    /\ mgr.is_recording
    /\ result.op = "start" /\ result.status = "Ok" /\ quiet

\* =========================================================================
\* The manager is dropped
\*
\* A fifth specification: the lifecycle specification with, in addition, the
\* drop of the RecordingManager of recording.rs and of recording_manager.rs.
\* After the drop no call reaches the manager; the OS goes on with the
\* streams it was given.
\* =========================================================================

\* The manager after its drop: every field is gone
DroppedManager == NewManager("dropped")

\* recording.rs Drop for RecordingManager, lines 382-386: cleanup(), then the
\* fields are dropped
RecDrop ==
    /\ mgr.kind = "recording"
    /\ LET m1 == cleanup(mgr)
           bs == DropBridge(bridges, mgr.delegate_bridge)
       IN Commit([m1 EXCEPT !.kind = DroppedManager.kind,
                            !.is_recording = DroppedManager.is_recording,
                            !.output_path = DroppedManager.output_path,
                            !.shareable_content = DroppedManager.shareable_content],
                 streams, delegates, bs, encoders, outputs,
                 Returned("drop", "Ok", "", None))

\* recording_manager.rs Drop for RecordingManager, lines 412-420:
\* stop_recording() when is_recording() is true, its result ignored, then the
\* fields are dropped
RMDrop ==
    /\ mgr.kind = "recording_manager"
    /\ LET ss == IF mgr.is_recording /\ IsSome(mgr.stream)
                 THEN RequestStop(streams, Unwrap(mgr.stream)) ELSE streams
           os == IF mgr.is_recording /\ IsSome(mgr.stream_output)
                 THEN [outputs EXCEPT ![Unwrap(mgr.stream_output)] =
                           StreamOutput_stop_recording(@)]
                 ELSE outputs
       IN Commit(DroppedManager, ss, delegates, bridges, encoders, os,
                 Returned("drop", "Ok", "", None))

DropNext ==
    \/ Next
    \/ RecDrop
    \/ RMDrop

DropSpec == Init /\ [][DropNext]_vars

\* Properties of the drop of a manager (checked in DropSpec)
DropCall == quiet' /\ result'.op = "drop"

\* C38: when a manager that is recording and holds a stream is dropped, the
\* drop asks the OS to stop a stream that is starting or running, and it
\* finalizes the sinks of the session: the encoders of the manager's
\* delegate have their writers finished, and a StreamOutput that has a
\* writer has finished it.
C38_DropStopsCaptureAndFinalizes ==
    [][ (DropCall /\ mgr.is_recording /\ IsSome(mgr.stream)) =>
          /\ streams[Unwrap(mgr.stream)].state \in {"starting", "running"}
                 => streams'[Unwrap(mgr.stream)].state = "stopping"
          /\ \A e \in 1..Len(encoders) :
                 (IsSome(mgr.delegate) /\ encoders[e].owner = Unwrap(mgr.delegate))
                     => encoders'[e].writer = "finished"
          /\ IsSome(mgr.stream_output) =>
                 LET o == Unwrap(mgr.stream_output) IN
                 outputs[o].asset_writer => outputs'[o].finish_calls >= 1
      ]_vars

====
